---- MODULE Spec2Model ----
(***************************************************************************)
(* Model of the image-processing core of vertex-nano-banana-unlimited      *)
(* (package imageprocessing, src/internal/proxy/config.go): the security   *)
(* gate, the RAW converter (ProcessARWToPNG) and the adaptive encoder      *)
(* (ProcessImage).                                                         *)
(*                                                                         *)
(* Strings are sequences of one-character strings, so that the regular     *)
(* expressions and filepath functions of the source are computed on the    *)
(* characters.  A Go error is the chain of its layers, outermost first     *)
(* (fmt.Errorf("...: %w") and SecurityError.Cause add a layer); nil is the *)
(* empty chain.                                                            *)
(***************************************************************************)
EXTENDS Integers, Sequences, FiniteSets, TLC

(***************************************************************************)
(* Bounds of the model.                                                    *)
(***************************************************************************)
\* rasters of the small grid are 1..MaxDim wide and high
MaxDim == 4
\* an encoder output is 1..MaxEncoded bytes long
MaxEncoded == 3
\* the longest path drawn from the path alphabet
MaxPathChars == 4
\* the calls that run at the same time
NumCalls == 2
\* the most releases of one temp file
MaxReleases == 3

(***************************************************************************)
(* Strings                                                                 *)
(***************************************************************************)
Upper == <<"A", "B", "C", "D", "E", "F", "G", "H", "I", "J", "K", "L", "M",
           "N", "O", "P", "Q", "R", "S", "T", "U", "V", "W", "X", "Y", "Z">>
Lower == <<"a", "b", "c", "d", "e", "f", "g", "h", "i", "j", "k", "l", "m",
           "n", "o", "p", "q", "r", "s", "t", "u", "v", "w", "x", "y", "z">>

\* strings.ToLower on one character
ToLowerChar(c) ==
    IF \E i \in 1..26 : Upper[i] = c
    THEN Lower[CHOOSE i \in 1..26 : Upper[i] = c]
    ELSE c

\* strings.ToLower
ToLower(s) == [i \in 1..Len(s) |-> ToLowerChar(s[i])]

\* strings.Contains(s, sub)
Contains(s, sub) ==
    \E i \in 0..(Len(s) - Len(sub)) :
        \A j \in 1..Len(sub) : s[i + j] = sub[j]

\* strings.HasSuffix(s, suffix)
HasSuffix(s, suffix) ==
    /\ Len(suffix) <= Len(s)
    /\ \A j \in 1..Len(suffix) : s[Len(s) - Len(suffix) + j] = suffix[j]

\* hasSuffixIgnoreCase(s, suffix)
hasSuffixIgnoreCase(s, suffix) == HasSuffix(ToLower(s), ToLower(suffix))

\* strings.LastIndex(s, c) for a one-character c, 1-based; 0 when absent
LastIndexChar(s, c) ==
    IF \E i \in 1..Len(s) : s[i] = c
    THEN CHOOSE i \in 1..Len(s) : s[i] = c /\ \A j \in (i + 1)..Len(s) : s[j] # c
    ELSE 0

Digits == <<"0", "1", "2", "3", "4", "5", "6", "7", "8", "9">>

RECURSIVE ItoaNat(_)
ItoaNat(n) == IF n < 10 THEN <<Digits[n + 1]>>
              ELSE ItoaNat(n \div 10) \o <<Digits[(n % 10) + 1]>>

\* strconv.Itoa
Itoa(n) == IF n < 0 THEN <<"-">> \o ItoaNat(-n) ELSE ItoaNat(n)

(***************************************************************************)
(* Errors                                                                  *)
(***************************************************************************)
Nil == <<>>

\* errors.New / fmt.Errorf without %w
NewError(msg) == <<[t |-> "error", m |-> msg]>>

\* fmt.Errorf(msg + ": %w", err)
Wrap(msg, err) == <<[t |-> "error", m |-> msg]>> \o err

\* NewSecurityError(errorType, message, cause)
NewSecurityError(errorType, message, cause) ==
    <<[t |-> "SecurityError", m |-> errorType, msg |-> message]>> \o cause

\* &InputValidationError{Field: field}
InputValidationError(field) == <<[t |-> "InputValidationError", m |-> field]>>

\* errors.As(err, &InputValidationError) with that Field
IsValidationErrorOn(err, field) ==
    \E i \in 1..Len(err) : err[i].t = "InputValidationError" /\ err[i].m = field

\* errors.As(err, &SecurityError) with that Type
IsSecurityError(err, errorType) ==
    \E i \in 1..Len(err) : err[i].t = "SecurityError" /\ err[i].m = errorType

\* the message of some layer of the chain
HasMessage(err, msg) == \E i \in 1..Len(err) : err[i].m = msg

(***************************************************************************)
(* SecurityGate                                                            *)
(***************************************************************************)
DefaultCommandTimeout == 30
MaxFileSize == 100 * 1024 * 1024
MaxArgLen == 4096
MaxPathLen == 260

DarktableCli == <<"d", "a", "r", "k", "t", "a", "b", "l", "e", "-", "c", "l", "i">>
Echo == <<"e", "c", "h", "o">>

\* os.TempDir() on the host: an absolute directory
OsTempDir == <<"/", "t", "m", "p">>

\* the character class of dangerousCommandChars
DangerousCommandCharSet ==
    {";", "&", "|", "`", "'", "\"", "(", ")", "{", "}", "[", "]", "$", "<", ">"}

\* dangerousCommandChars.MatchString(s)
dangerousCommandChars(s) == \E i \in 1..Len(s) : s[i] \in DangerousCommandCharSet

\* dangerousPathChars.MatchString(s): ".." followed by "/" or "\"
dangerousPathChars(s) ==
    \E i \in 1..(Len(s) - 2) :
        s[i] = "." /\ s[i + 1] = "." /\ s[i + 2] \in {"/", "\\"}

DefaultSecurityConfig ==
    [AllowedCommands |-> {DarktableCli, Echo},
     AllowedTempDir |-> OsTempDir,
     MaxFileSize |-> MaxFileSize,
     CommandTimeout |-> DefaultCommandTimeout,
     EnableInputValidation |-> TRUE]

\* validateCommandName without the metacharacter check
validateCommandNameAllowListOnly(cmdName, config) ==
    IF cmdName \notin config.AllowedCommands
    THEN NewError("command not allowed")
    ELSE Nil

validateCommandName(cmdName, config) ==
    IF cmdName \notin config.AllowedCommands
    THEN NewError("command not allowed")
    ELSE IF dangerousCommandChars(cmdName)
    THEN NewError("command contains dangerous characters")
    ELSE Nil

\* the check of one argument with >= for > in the length test
validateOneArgOffByOne(arg) ==
    IF dangerousCommandChars(arg)
    THEN NewError("argument contains dangerous characters")
    ELSE IF dangerousPathChars(arg)
    THEN NewError("argument contains path traversal sequences")
    ELSE IF Len(arg) >= MaxArgLen
    THEN NewError("argument too long")
    ELSE Nil

\* the check of one argument, in the order of the loop body
validateOneArg(arg) ==
    IF dangerousCommandChars(arg)
    THEN NewError("argument contains dangerous characters")
    ELSE IF dangerousPathChars(arg)
    THEN NewError("argument contains path traversal sequences")
    ELSE IF Len(arg) > MaxArgLen
    THEN NewError("argument too long")
    ELSE Nil

\* validateCommandArgs: the error of the first argument that fails
validateCommandArgs(args) ==
    IF \E i \in 1..Len(args) : validateOneArg(args[i]) # Nil
    THEN validateOneArg(args[CHOOSE i \in 1..Len(args) :
                                /\ validateOneArg(args[i]) # Nil
                                /\ \A j \in 1..(i - 1) : validateOneArg(args[j]) = Nil])
    ELSE Nil

\* what cmd.Run() can do with a command that passed validation
ProcOutcomes == {"exit0", "exitNonZero", "timeout", "startError"}

\* safeExecuteCommand that reports every failure of cmd.Run() the same way
safeExecuteCommandNoDeadlineCheck(cmdName, args, config, outcome) ==
    IF validateCommandName(cmdName, config) # Nil
    THEN [err |-> Wrap("invalid command", validateCommandName(cmdName, config)),
          procs |-> <<>>]
    ELSE IF validateCommandArgs(args) # Nil
    THEN [err |-> Wrap("invalid arguments", validateCommandArgs(args)),
          procs |-> <<>>]
    ELSE LET proc(end) == [name |-> cmdName, args |-> args, dir |-> config.AllowedTempDir,
                           timeout |-> config.CommandTimeout, end |-> end]
         IN  CASE outcome = "exit0" ->
                    [err |-> Nil, procs |-> <<proc("exited")>>]
               [] outcome = "timeout" ->
                    [err |-> Wrap("command execution failed", NewError("signal: killed")),
                     procs |-> <<proc("killed")>>]
               [] outcome = "exitNonZero" ->
                    [err |-> Wrap("command execution failed", NewError("exit status")),
                     procs |-> <<proc("exited")>>]
               [] OTHER ->
                    [err |-> Wrap("command execution failed", NewError("exec: not started")),
                     procs |-> <<>>]

\* safeExecuteCommand that runs the command again after a failure
safeExecuteCommandRetry(cmdName, args, config, outcome) ==
    IF validateCommandName(cmdName, config) # Nil
    THEN [err |-> Wrap("invalid command", validateCommandName(cmdName, config)),
          procs |-> <<>>]
    ELSE IF validateCommandArgs(args) # Nil
    THEN [err |-> Wrap("invalid arguments", validateCommandArgs(args)),
          procs |-> <<>>]
    ELSE LET proc(end) == [name |-> cmdName, args |-> args, dir |-> config.AllowedTempDir,
                           timeout |-> config.CommandTimeout, end |-> end]
         IN  CASE outcome = "exit0" ->
                    [err |-> Nil, procs |-> <<proc("exited")>>]
               [] outcome = "timeout" ->
                    [err |-> Wrap("command timed out", NewError("signal: killed")),
                     procs |-> <<proc("killed"), proc("killed")>>]
               [] outcome = "exitNonZero" ->
                    [err |-> Wrap("command execution failed", NewError("exit status")),
                     procs |-> <<proc("exited"), proc("exited")>>]
               [] OTHER ->
                    [err |-> Wrap("command execution failed", NewError("exec: not started")),
                     procs |-> <<>>]

\* safeExecuteCommand: the error returned and the processes started, given what
\* the external process does.  A process is [name, args, dir, timeout, end]: the
\* context of exec.CommandContext kills a process that is still running at the
\* deadline, and cmd.Run() returns when the process has ended.
safeExecuteCommand(cmdName, args, config, outcome) ==
    IF validateCommandName(cmdName, config) # Nil
    THEN [err |-> Wrap("invalid command", validateCommandName(cmdName, config)),
          procs |-> <<>>]
    ELSE IF validateCommandArgs(args) # Nil
    THEN [err |-> Wrap("invalid arguments", validateCommandArgs(args)),
          procs |-> <<>>]
    ELSE LET proc(end) == [name |-> cmdName, args |-> args, dir |-> config.AllowedTempDir,
                           timeout |-> config.CommandTimeout, end |-> end]
         IN  CASE outcome = "exit0" ->
                    [err |-> Nil, procs |-> <<proc("exited")>>]
               [] outcome = "timeout" ->
                    [err |-> Wrap("command timed out", NewError("signal: killed")),
                     procs |-> <<proc("killed")>>]
               [] outcome = "exitNonZero" ->
                    [err |-> Wrap("command execution failed", NewError("exit status")),
                     procs |-> <<proc("exited")>>]
               [] OTHER ->
                    [err |-> Wrap("command execution failed", NewError("exec: not started")),
                     procs |-> <<>>]

(***************************************************************************)
(* Paths (path/filepath on a Unix host: the separator is "/")              *)
(***************************************************************************)
RECURSIVE SplitSlash(_)
\* the elements of a path between its separators (empty ones included)
SplitSlash(s) ==
    IF \E i \in 1..Len(s) : s[i] = "/"
    THEN LET i == CHOOSE k \in 1..Len(s) : s[k] = "/" /\ \A j \in 1..(k - 1) : s[j] # "/"
         IN  <<SubSeq(s, 1, i - 1)>> \o SplitSlash(SubSeq(s, i + 1, Len(s)))
    ELSE <<s>>

RECURSIVE CleanElems(_, _, _)
\* filepath.Clean's pass over the elements: drops "" and ".", lets ".." cancel
\* the element before it, drops ".." at the root
CleanElems(elems, out, rooted) ==
    IF elems = <<>> THEN out
    ELSE LET e == Head(elems)
             rest == Tail(elems)
         IN  IF e = <<>> \/ e = <<".">>
             THEN CleanElems(rest, out, rooted)
             ELSE IF e = <<".", ".">>
             THEN IF out # <<>> /\ out[Len(out)] # <<".", ".">>
                  THEN CleanElems(rest, SubSeq(out, 1, Len(out) - 1), rooted)
                  ELSE IF rooted
                  THEN CleanElems(rest, out, rooted)
                  ELSE CleanElems(rest, Append(out, e), rooted)
             ELSE CleanElems(rest, Append(out, e), rooted)

RECURSIVE JoinSlash(_)
JoinSlash(elems) ==
    IF elems = <<>> THEN <<>>
    ELSE IF Len(elems) = 1 THEN elems[1]
    ELSE elems[1] \o <<"/">> \o JoinSlash(Tail(elems))

\* filepath.IsAbs
IsAbs(path) == Len(path) > 0 /\ path[1] = "/"

\* filepath.Clean
Clean(path) ==
    LET body == JoinSlash(CleanElems(SplitSlash(path), <<>>, IsAbs(path)))
    IN  IF IsAbs(path) THEN <<"/">> \o body
        ELSE IF body = <<>> THEN <<".">>
        ELSE body

\* filepath.Ext: from the last "." of the last element, "" when it has none
Ext(path) ==
    LET start == LastIndexChar(path, "/") + 1
        dots == {i \in start..Len(path) : path[i] = "."}
    IN  IF dots = {} THEN <<>>
        ELSE SubSeq(path, CHOOSE i \in dots : \A j \in dots : j <= i, Len(path))

\* os.CreateTemp(dir, pattern): dir, a separator unless dir ends with one, and
\* the pattern with its "*" replaced by a random string
CreateTempName(dir, prefix, random, suffix) ==
    (IF Len(dir) > 0 /\ dir[Len(dir)] = "/" THEN dir ELSE dir \o <<"/">>)
        \o prefix \o random \o suffix

\* strings.Split(AllowedImageExts, ",")
AllowedImageExts ==
    {<<".", "p", "n", "g">>, <<".", "j", "p", "g">>, <<".", "j", "p", "e", "g">>,
     <<".", "w", "e", "b", "p">>, <<".", "t", "i", "f", "f">>, <<".", "b", "m", "p">>,
     <<".", "a", "r", "w">>, <<".", "s", "r", "f">>, <<".", "s", "r", "2">>}

\* validateFilePath without the absolute-path check
validateFilePathAllowAbs(filePath, config) ==
    LET cleanPath == Clean(filePath)
    IN  IF Contains(cleanPath, <<".", ".">>)
        THEN [path |-> <<>>, err |-> NewError("path traversal detected")]
        ELSE IF dangerousPathChars(cleanPath)
        THEN [path |-> <<>>, err |-> NewError("path contains dangerous characters")]
        ELSE IF Len(cleanPath) > MaxPathLen
        THEN [path |-> <<>>, err |-> NewError("path too long")]
        ELSE [path |-> cleanPath, err |-> Nil]

\* validateFilePath without the ".." check
validateFilePathNoTraversal(filePath, config) ==
    LET cleanPath == Clean(filePath)
    IN  IF IsAbs(cleanPath)
        THEN [path |-> <<>>, err |-> NewError("absolute paths not allowed")]
        ELSE IF dangerousPathChars(cleanPath)
        THEN [path |-> <<>>, err |-> NewError("path contains dangerous characters")]
        ELSE IF Len(cleanPath) > MaxPathLen
        THEN [path |-> <<>>, err |-> NewError("path too long")]
        ELSE [path |-> cleanPath, err |-> Nil]

\* validateFilePath: (cleanPath, err)
validateFilePath(filePath, config) ==
    LET cleanPath == Clean(filePath)
    IN  IF Contains(cleanPath, <<".", ".">>)
        THEN [path |-> <<>>, err |-> NewError("path traversal detected")]
        ELSE IF IsAbs(cleanPath)
        THEN [path |-> <<>>, err |-> NewError("absolute paths not allowed")]
        ELSE IF dangerousPathChars(cleanPath)
        THEN [path |-> <<>>, err |-> NewError("path contains dangerous characters")]
        ELSE IF Len(cleanPath) > MaxPathLen
        THEN [path |-> <<>>, err |-> NewError("path too long")]
        ELSE [path |-> cleanPath, err |-> Nil]

validateFileExtension(filePath) ==
    IF ToLower(Ext(filePath)) \in AllowedImageExts
    THEN Nil
    ELSE NewError("file extension not allowed")

\* validateFileSize on a file system fs (path -> [size, mode]); os.Stat fails on a
\* path that is not there
validateFileSize(fs, filePath, maxSize) ==
    IF filePath \notin DOMAIN fs
    THEN Wrap("failed to get file info", NewError("no such file or directory"))
    ELSE IF fs[filePath].size > maxSize
    THEN NewError("file too large")
    ELSE Nil

(***************************************************************************)
(* RawConverter                                                            *)
(***************************************************************************)
colorSpaceMap ==
    [sRGB |-> <<"2">>, AdobeRGB |-> <<"1">>, ProPhoto |-> <<"3">>]

wbMap ==
    [camera |-> <<"c", "a", "m", "e", "r", "a">>,
     auto |-> <<"a", "u", "t", "o">>,
     manual |-> <<"m", "a", "n", "u", "a", "l">>]

FlagCore == <<"-", "-", "c", "o", "r", "e">>
FlagConf == <<"-", "-", "c", "o", "n", "f">>
FlagHq == <<"-", "-", "h", "q">>
FlagUpscale == <<"-", "-", "u", "p", "s", "c", "a", "l", "e">>
ConfBpp == <<"p", "l", "u", "g", "i", "n", "s", "/", "i", "m", "a", "g", "e", "i", "o", "/", "f", "o", "r", "m", "a", "t", "/", "p", "n", "g", "/", "b", "p", "p", "=">>
ConfCompression == <<"p", "l", "u", "g", "i", "n", "s", "/", "i", "m", "a", "g", "e", "i", "o", "/", "f", "o", "r", "m", "a", "t", "/", "p", "n", "g", "/", "c", "o", "m", "p", "r", "e", "s", "s", "i", "o", "n", "=">>
ConfColorspace == <<"p", "l", "u", "g", "i", "n", "s", "/", "l", "i", "g", "h", "t", "t", "a", "b", "l", "e", "/", "e", "x", "p", "o", "r", "t", "/", "c", "o", "l", "o", "r", "s", "p", "a", "c", "e", "=">>
ConfWb == <<"p", "l", "u", "g", "i", "n", "s", "/", "l", "i", "g", "h", "t", "t", "a", "b", "l", "e", "/", "e", "x", "p", "o", "r", "t", "/", "w", "b", "=">>
ConfOverwrite == <<"p", "l", "u", "g", "i", "n", "s", "/", "l", "i", "g", "h", "t", "t", "a", "b", "l", "e", "/", "e", "x", "p", "o", "r", "t", "/", "o", "v", "e", "r", "w", "r", "i", "t", "e", "=", "t", "r", "u", "e">>

\* buildDarktableArgs without the check of Bitness
buildDarktableArgsNoBitnessCheck(inputPath, outputPath, options) ==
    IF validateFilePath(inputPath, DefaultSecurityConfig).err # Nil
    THEN [args |-> <<>>,
          err |-> NewSecurityError("path_validation", "invalid input path",
                      validateFilePath(inputPath, DefaultSecurityConfig).err)]
    ELSE IF validateFilePath(outputPath, DefaultSecurityConfig).err # Nil
    THEN [args |-> <<>>,
          err |-> NewSecurityError("path_validation", "invalid output path",
                      validateFilePath(outputPath, DefaultSecurityConfig).err)]
    ELSE IF options.Compression < 0 \/ options.Compression > 9
    THEN [args |-> <<>>, err |-> InputValidationError("compression")]
    ELSE IF options.ColorSpace \notin DOMAIN colorSpaceMap
    THEN [args |-> <<>>, err |-> InputValidationError("colorspace")]
    ELSE IF options.WhiteBalance \notin DOMAIN wbMap
    THEN [args |-> <<>>, err |-> InputValidationError("whitebalance")]
    ELSE [args |-> <<inputPath, outputPath,
                     FlagCore, FlagConf, ConfBpp \o Itoa(options.Bitness),
                     FlagCore, FlagConf, ConfCompression \o Itoa(options.Compression),
                     FlagCore, FlagConf, ConfColorspace \o colorSpaceMap[options.ColorSpace],
                     FlagCore, FlagConf, ConfWb \o wbMap[options.WhiteBalance],
                     FlagHq, FlagUpscale,
                     FlagConf, ConfOverwrite>>,
          err |-> Nil]

\* buildDarktableArgs that passes Exposure on to the converter
buildDarktableArgsWithExposure(inputPath, outputPath, options) ==
    LET built == buildDarktableArgsNoBitnessCheck(inputPath, outputPath, options)
    IN  IF built.err # Nil THEN built
        ELSE IF options.Bitness # 8 /\ options.Bitness # 16
        THEN [args |-> <<>>, err |-> InputValidationError("bitness")]
        ELSE [args |-> built.args \o <<FlagConf, Itoa(options.Exposure)>>, err |-> Nil]

\* buildDarktableArgs: (args, err)
buildDarktableArgs(inputPath, outputPath, options) ==
    IF validateFilePath(inputPath, DefaultSecurityConfig).err # Nil
    THEN [args |-> <<>>,
          err |-> NewSecurityError("path_validation", "invalid input path",
                      validateFilePath(inputPath, DefaultSecurityConfig).err)]
    ELSE IF validateFilePath(outputPath, DefaultSecurityConfig).err # Nil
    THEN [args |-> <<>>,
          err |-> NewSecurityError("path_validation", "invalid output path",
                      validateFilePath(outputPath, DefaultSecurityConfig).err)]
    ELSE IF options.Bitness # 8 /\ options.Bitness # 16
    THEN [args |-> <<>>, err |-> InputValidationError("bitness")]
    ELSE IF options.Compression < 0 \/ options.Compression > 9
    THEN [args |-> <<>>, err |-> InputValidationError("compression")]
    ELSE IF options.ColorSpace \notin DOMAIN colorSpaceMap
    THEN [args |-> <<>>, err |-> InputValidationError("colorspace")]
    ELSE IF options.WhiteBalance \notin DOMAIN wbMap
    THEN [args |-> <<>>, err |-> InputValidationError("whitebalance")]
    ELSE [args |-> <<inputPath, outputPath,
                     FlagCore, FlagConf, ConfBpp \o Itoa(options.Bitness),
                     FlagCore, FlagConf, ConfCompression \o Itoa(options.Compression),
                     FlagCore, FlagConf, ConfColorspace \o colorSpaceMap[options.ColorSpace],
                     FlagCore, FlagConf, ConfWb \o wbMap[options.WhiteBalance],
                     FlagHq, FlagUpscale,
                     FlagConf, ConfOverwrite>>,
          err |-> Nil]

\* safeExecuteDarktableCommand: the error returned and the processes started
safeExecuteDarktableCommand(inputPath, outputPath, options, outcome) ==
    LET config == DefaultSecurityConfig
        built == buildDarktableArgs(inputPath, outputPath, options)
    IN  IF built.err # Nil
        THEN [err |-> Wrap("failed to build command args", built.err), procs |-> <<>>]
        ELSE safeExecuteCommand(DarktableCli, built.args, config, outcome)

\* isDarktableAvailable without the exec.LookPath probe
isDarktableAvailableAllowListOnly(found) == DarktableCli \in DefaultSecurityConfig.AllowedCommands

\* isDarktableAvailable, given whether exec.LookPath finds darktable-cli
isDarktableAvailable(onPath) ==
    onPath /\ DarktableCli \in DefaultSecurityConfig.AllowedCommands

(***************************************************************************)
(* ResourceLifecycle                                                       *)
(***************************************************************************)
\* fs without the file at path
RemoveFile(files, path) == [p \in (DOMAIN files) \ {path} |-> files[p]]

\* fs with the file at path set to f
PutFile(files, path, f) ==
    [p \in (DOMAIN files) \cup {path} |-> IF p = path THEN f ELSE files[p]]

\* what the host can do to secureCreateTempFile
CreateOutcomes == {"ok", "createFails", "chmodFails"}

\* secureCreateTempFile(prefix*suffix, config): the open file's name, the file
\* os.CreateTemp made, the files afterwards and the error.  os.CreateTemp makes the
\* file with mode 0600; when Chmod fails the file is closed and os.Remove is
\* called, its error dropped.
secureCreateTempFile(files, prefix, suffix, cfg, random, outcome, removeOk) ==
    LET name == CreateTempName(cfg.AllowedTempDir, prefix, random, suffix)
        made == PutFile(files, name, [size |-> 0, mode |-> "0600"])
    IN  CASE outcome = "createFails" ->
               [name |-> <<>>, created |-> <<>>, fs |-> files,
                err |-> Wrap("failed to create temp file", NewError("open"))]
          [] outcome = "chmodFails" ->
               [name |-> <<>>, created |-> name,
                fs |-> IF removeOk THEN files ELSE made,
                err |-> Wrap("failed to set secure permissions", NewError("chmod"))]
          [] OTHER ->
               [name |-> name, created |-> name, fs |-> made, err |-> Nil]

\* secureCleanup that removes the file whatever keepTemp says
secureCleanupIgnoresKeep(files, filePath, keepTemp, removeOk) ==
    IF filePath \notin DOMAIN files
    THEN [fs |-> files, err |-> Nil]
    ELSE IF removeOk
    THEN [fs |-> RemoveFile(files, filePath), err |-> Nil]
    ELSE [fs |-> files, err |-> Wrap("failed to cleanup file", NewError("remove"))]

\* secureCleanup that reports a file that is already gone
secureCleanupStrictAbsent(files, filePath, keepTemp, removeOk) ==
    IF keepTemp
    THEN [fs |-> files, err |-> Nil]
    ELSE IF filePath \notin DOMAIN files
    THEN [fs |-> files, err |-> Wrap("failed to cleanup file", NewError("remove"))]
    ELSE IF removeOk
    THEN [fs |-> RemoveFile(files, filePath), err |-> Nil]
    ELSE [fs |-> files, err |-> Wrap("failed to cleanup file", NewError("remove"))]

\* secureCleanup that removes nothing
secureCleanupNoRemove(files, filePath, keepTemp, removeOk) ==
    [fs |-> files, err |-> Nil]

\* secureCleanup(filePath, keepTemp): the files afterwards and the error, given
\* whether os.Remove can remove the file
secureCleanup(files, filePath, keepTemp, removeOk) ==
    IF keepTemp
    THEN [fs |-> files, err |-> Nil]
    ELSE IF filePath \notin DOMAIN files
    THEN [fs |-> files, err |-> Nil]
    ELSE IF removeOk
    THEN [fs |-> RemoveFile(files, filePath), err |-> Nil]
    ELSE [fs |-> files, err |-> Wrap("failed to cleanup file", NewError("remove"))]

(***************************************************************************)
(* AdaptiveEncoder: float64 arithmetic                                     *)
(*                                                                         *)
(* ProcessImage computes its factors in float64.  A positive float64 is    *)
(* kept as [m, e] with value m * 2^e, where m is a 53-bit integer held as  *)
(* a little-endian sequence of 15-bit limbs; products and quotients are    *)
(* rounded to nearest, ties to even, as IEEE 754 does.                     *)
(***************************************************************************)
Base == 2^15
\* the bits of a float64 mantissa
MantissaBits == 53

RECURSIVE Pow2(_)
Pow2(k) == IF k = 0 THEN 1 ELSE 2 * Pow2(k - 1)

RECURSIVE BitLenInt(_)
BitLenInt(n) == IF n = 0 THEN 0 ELSE 1 + BitLenInt(n \div 2)

LimbBits == BitLenInt(Base) - 1

RECURSIVE BigFromInt(_)
BigFromInt(n) == IF n = 0 THEN <<>> ELSE <<n % Base>> \o BigFromInt(n \div Base)

RECURSIVE BigToInt(_)
BigToInt(a) == IF a = <<>> THEN 0 ELSE a[1] + Base * BigToInt(Tail(a))

RECURSIVE BigNorm(_)
\* without its leading zero limbs
BigNorm(a) ==
    IF a = <<>> THEN a
    ELSE IF a[Len(a)] = 0 THEN BigNorm(SubSeq(a, 1, Len(a) - 1))
    ELSE a

RECURSIVE BigMulSmall(_, _, _)
\* a * x + carry, for a limb x
BigMulSmall(a, x, carry) ==
    IF a = <<>> THEN (IF carry = 0 THEN <<>> ELSE <<carry>>)
    ELSE LET t == a[1] * x + carry
         IN  <<t % Base>> \o BigMulSmall(Tail(a), x, t \div Base)

RECURSIVE BigAdd(_, _, _)
BigAdd(a, b, carry) ==
    IF a = <<>> /\ b = <<>> THEN (IF carry = 0 THEN <<>> ELSE <<carry>>)
    ELSE LET x == IF a = <<>> THEN 0 ELSE a[1]
             y == IF b = <<>> THEN 0 ELSE b[1]
             t == x + y + carry
         IN  <<t % Base>> \o BigAdd(IF a = <<>> THEN a ELSE Tail(a),
                                    IF b = <<>> THEN b ELSE Tail(b), t \div Base)

RECURSIVE BigMul(_, _)
BigMul(a, b) ==
    IF a = <<>> THEN <<>>
    ELSE BigAdd(BigMulSmall(b, a[1], 0), <<0>> \o BigMul(Tail(a), b), 0)

RECURSIVE BigDivSmall(_, _, _)
\* [q, r]: the limbs of a, most significant first, divided by b < Base, with the
\* remainder rem carried in
BigDivSmall(a, b, rem) ==
    IF a = <<>> THEN [q |-> <<>>, r |-> rem]
    ELSE LET t == rem * Base + a[Len(a)]
             rest == BigDivSmall(SubSeq(a, 1, Len(a) - 1), b, t % b)
         IN  [q |-> Append(rest.q, t \div b), r |-> rest.r]

\* the number of bits of a normalised a
BigBitLen(a) ==
    IF a = <<>> THEN 0 ELSE LimbBits * (Len(a) - 1) + BitLenInt(a[Len(a)])

\* bit i of a (bit 0 is the lowest)
BigBit(a, i) ==
    IF (i \div LimbBits) + 1 > Len(a) THEN 0
    ELSE (a[(i \div LimbBits) + 1] \div Pow2(i % LimbBits)) % 2

\* whether one of the k lowest bits of a is set
BigLowNonZero(a, k) ==
    \E j \in 1..Len(a) :
        IF LimbBits * j <= k THEN a[j] # 0
        ELSE IF LimbBits * (j - 1) < k THEN a[j] % Pow2(k - LimbBits * (j - 1)) # 0
        ELSE FALSE

\* a * 2^k
BigShl(a, k) ==
    [i \in 1..(k \div LimbBits) |-> 0] \o BigMulSmall(a, Pow2(k % LimbBits), 0)

\* floor(a / 2^k)
BigShr(a, k) ==
    LET drop == k \div LimbBits
        s == k % LimbBits
        limb(i) == IF i > Len(a) THEN 0 ELSE a[i]
    IN  IF drop >= Len(a) THEN <<>>
        ELSE BigNorm([i \in 1..(Len(a) - drop) |->
                         (limb(i + drop) \div Pow2(s))
                         + (limb(i + drop + 1) % Pow2(s)) * Pow2(LimbBits - s)])

RECURSIVE BigLess(_, _)
\* a < b, for normalised a and b
BigLess(a, b) ==
    IF Len(a) # Len(b) THEN Len(a) < Len(b)
    ELSE IF a = <<>> THEN FALSE
    ELSE IF a[Len(a)] # b[Len(b)] THEN a[Len(a)] < b[Len(b)]
    ELSE BigLess(SubSeq(a, 1, Len(a) - 1), SubSeq(b, 1, Len(b) - 1))

\* the float64 nearest to p * 2^e (ties to even), for a normalised p > 0
RoundBig(p, e) ==
    LET len == BigBitLen(p)
    IN  IF len <= MantissaBits
        THEN [m |-> BigShl(p, MantissaBits - len), e |-> e - (MantissaBits - len)]
        ELSE LET k == len - MantissaBits
                 q == BigShr(p, k)
                 up == /\ BigBit(p, k - 1) = 1
                       /\ (BigLowNonZero(p, k - 1) \/ BigBit(q, 0) = 1)
                 r == IF up THEN BigAdd(q, <<1>>, 0) ELSE q
             IN  IF BigBitLen(r) > MantissaBits
                 THEN [m |-> BigShr(r, 1), e |-> e + k + 1]
                 ELSE [m |-> r, e |-> e + k]

\* float64(n), for an int n > 0
FloatFromInt(n) == RoundBig(BigFromInt(n), 0)

\* float64(a) / float64(b), for ints 0 < a and 0 < b < 2^15: the quotient to 75
\* binary places, its last bit set when the division left a remainder
FloatDivInt(a, b) ==
    LET d == BigDivSmall(<<0, 0, 0, 0, 0>> \o BigFromInt(a), b, 0)
        q == BigNorm(d.q)
        sticky == IF d.r # 0 /\ q[1] % 2 = 0 THEN BigAdd(q, <<1>>, 0) ELSE q
    IN  RoundBig(sticky, -(5 * LimbBits))

\* x * y
FloatMul(x, y) == RoundBig(BigNorm(BigMul(x.m, y.m)), x.e + y.e)

\* x < y
FloatLess(x, y) == x.e < y.e \/ (x.e = y.e /\ BigLess(x.m, y.m))

\* math.Min(x, y)
FloatMin(x, y) == IF FloatLess(y, x) THEN y ELSE x

\* int(x): x truncated
FloatToInt(x) ==
    IF x.e >= 0 THEN BigToInt(BigShl(x.m, x.e)) ELSE BigToInt(BigShr(x.m, -x.e))

\* the constants of the source: 1.0, 0.6, 0.75, 0.85, 0.1 and 0.8
One == FloatFromInt(1)
F060 == FloatDivInt(6, 10)
F075 == FloatDivInt(75, 100)
F085 == FloatDivInt(85, 100)
\* a floor of 0.01 for 0.1
MinFactorHundredth == FloatDivInt(1, 100)
MinFactor == FloatDivInt(1, 10)
\* no decay for the decay of 0.8
DecayNone == FloatFromInt(1)
Decay == FloatDivInt(8, 10)

\* int(float64(w) * f)
ScaleDim(w, f) == FloatToInt(FloatMul(FloatFromInt(w), f))

\* calculateScaleFactor
calculateScaleFactor(pixels) ==
    IF pixels >= 8 * 1024 * 1024 THEN F060
    ELSE IF pixels >= 4 * 1024 * 1024 THEN F075
    ELSE IF pixels >= 2 * 1024 * 1024 THEN F085
    ELSE One

\* calculateUserScaleFactor
calculateUserScaleFactor(width, height, maxWidth, maxHeight) ==
    IF maxWidth <= 0 /\ maxHeight <= 0 THEN One
    ELSE LET scaleX == IF maxWidth > 0 /\ width > maxWidth
                       THEN FloatDivInt(maxWidth, width) ELSE One
             scaleY == IF maxHeight > 0 /\ height > maxHeight
                       THEN FloatDivInt(maxHeight, height) ELSE One
             result == FloatMin(scaleX, scaleY)
         IN  IF FloatLess(One, result) THEN One ELSE result

\* the scale factor ProcessImage settles on (lines 757-766)
chooseScaleFactor(width, height, opts) ==
    LET base == calculateScaleFactor(width * height)
    IN  IF opts.MaxWidth > 0 \/ opts.MaxHeight > 0
        THEN LET userScaleFactor ==
                     calculateUserScaleFactor(width, height, opts.MaxWidth, opts.MaxHeight)
             IN  IF FloatLess(userScaleFactor, base) THEN userScaleFactor ELSE base
        ELSE base

\* targetFactor of one iteration (lines 773-778)
targetFactorOf(current, scale) ==
    LET targetFactor == FloatMul(current, scale)
    IN  IF FloatLess(One, targetFactor) THEN One ELSE targetFactor

NoImage == [w |-> 0, h |-> 0]

\* imaging.Resize(img, width, height, imaging.Lanczos): the size of the result.
\* Both 0 (or one negative) gives an empty image; one 0 keeps the aspect ratio,
\* at least 1 pixel.
Resize(img, width, height) ==
    IF width < 0 \/ height < 0 THEN NoImage
    ELSE IF width = 0 /\ height = 0 THEN NoImage
    ELSE IF img.w <= 0 \/ img.h <= 0 THEN NoImage
    ELSE LET round(a, b) == (2 * a + b) \div (2 * b)
             max1(x) == IF x < 1 THEN 1 ELSE x
         IN  [w |-> IF width = 0 THEN max1(round(height * img.w, img.h)) ELSE width,
              h |-> IF height = 0 THEN max1(round(width * img.h, img.w)) ELSE height]

\* imaging.Resize called with width and height swapped
scaledSizeSwapped(image, newWidth, newHeight) == Resize(image, newHeight, newWidth)

\* scaledImg := imaging.Resize(img, newWidth, newHeight, imaging.Lanczos)
scaledSize(image, newWidth, newHeight) == Resize(image, newWidth, newHeight)

\* the budget test with < for <=
fitsBudgetStrict(len, opts) == len < opts.MaxSizeBytes

\* int64(len(result)) <= options.MaxSizeBytes
fitsBudget(len, opts) == len <= opts.MaxSizeBytes

\* encodeImageWithCompression that takes every format for PNG
encodeImageWithCompressionAnyFormat(img, opts, size) ==
    IF img.w <= 0 \/ img.h <= 0
    THEN [len |-> 0, ext |-> <<>>, err |-> NewError("png: invalid image size")]
    ELSE [len |-> size, ext |-> <<".", "p", "n", "g">>, err |-> Nil]

\* encodeImageWithCompression(img, options): (bytes, ext, err), where size is the
\* length of what the codec writes.  png.Encode refuses an image without pixels,
\* jpeg.Encode one with a side of 65536 or more.
encodeImageWithCompression(img, opts, size) ==
    CASE ToLower(opts.OutputFormat) = <<"j", "p", "e", "g">> ->
            IF img.w >= 65536 \/ img.h >= 65536
            THEN [len |-> 0, ext |-> <<>>, err |-> NewError("jpeg: image is too large to encode")]
            ELSE [len |-> size, ext |-> <<".", "j", "p", "g">>, err |-> Nil]
      [] ToLower(opts.OutputFormat) = <<"p", "n", "g">> ->
            IF img.w <= 0 \/ img.h <= 0
            THEN [len |-> 0, ext |-> <<>>, err |-> NewError("png: invalid image size")]
            ELSE [len |-> size, ext |-> <<".", "p", "n", "g">>, err |-> Nil]
      [] OTHER ->
            [len |-> 0, ext |-> <<>>, err |-> NewError("unsupported output format")]

\* decodeImage with >= for > in the size test of a byte buffer
decodeImageBytesOffByOne(input, openOk) ==
    LET fail(e) == [img |-> NoImage, format |-> "", err |-> e, opened |-> FALSE]
        decode(opened) ==
            IF input.content # NoImage
            THEN [img |-> input.content, format |-> "unknown", err |-> Nil,
                  opened |-> opened]
            ELSE [img |-> NoImage, format |-> "",
                  err |-> NewError("unsupported image format"), opened |-> opened]
    IN  CASE input.kind = "path" ->
               LET v == validateFilePath(input.path, DefaultSecurityConfig)
                   files == IF input.file.exists
                            THEN [p \in {v.path} |-> [size |-> input.file.size, mode |-> "0644"]]
                            ELSE <<>>
               IN  IF v.err # Nil
                   THEN fail(NewSecurityError("path_validation", "invalid file path", v.err))
                   ELSE IF validateFileExtension(v.path) # Nil
                   THEN fail(NewSecurityError("extension_validation",
                                 "invalid file extension", validateFileExtension(v.path)))
                   ELSE IF validateFileSize(files, v.path, MaxFileSize) # Nil
                   THEN fail(NewSecurityError("size_validation",
                                 "file size validation failed",
                                 validateFileSize(files, v.path, MaxFileSize)))
                   ELSE IF ~openOk
                   THEN fail(Wrap("failed to open file", NewError("open")))
                   ELSE decode(TRUE)
          [] input.kind = "bytes" ->
               IF input.len >= MaxFileSize
               THEN fail(NewSecurityError("size_validation", "input data too large", Nil))
               ELSE decode(FALSE)
          [] OTHER ->
               fail(InputValidationError("input_type"))

\* decodeImage(input): (img, format, err), for an input
\* [kind, path, file, len, content]: a path whose file is [exists, size], or a
\* byte buffer of len bytes; content is what the bytes decode to, NoImage when
\* no decoder takes them.  opened tells whether the file was opened.
decodeImage(input, openOk) ==
    LET fail(e) == [img |-> NoImage, format |-> "", err |-> e, opened |-> FALSE]
        decode(opened) ==
            IF input.content # NoImage
            THEN [img |-> input.content, format |-> "unknown", err |-> Nil,
                  opened |-> opened]
            ELSE [img |-> NoImage, format |-> "",
                  err |-> NewError("unsupported image format"), opened |-> opened]
    IN  CASE input.kind = "path" ->
               LET v == validateFilePath(input.path, DefaultSecurityConfig)
                   files == IF input.file.exists
                            THEN [p \in {v.path} |-> [size |-> input.file.size, mode |-> "0644"]]
                            ELSE <<>>
               IN  IF v.err # Nil
                   THEN fail(NewSecurityError("path_validation", "invalid file path", v.err))
                   ELSE IF validateFileExtension(v.path) # Nil
                   THEN fail(NewSecurityError("extension_validation",
                                 "invalid file extension", validateFileExtension(v.path)))
                   ELSE IF validateFileSize(files, v.path, MaxFileSize) # Nil
                   THEN fail(NewSecurityError("size_validation",
                                 "file size validation failed",
                                 validateFileSize(files, v.path, MaxFileSize)))
                   ELSE IF ~openOk
                   THEN fail(Wrap("failed to open file", NewError("open")))
                   ELSE decode(TRUE)
          [] input.kind = "bytes" ->
               IF input.len > MaxFileSize
               THEN fail(NewSecurityError("size_validation", "input data too large", Nil))
               ELSE decode(FALSE)
          [] OTHER ->
               fail(InputValidationError("input_type"))

DefaultProcessImageOptions ==
    [MaxSizeBytes |-> 7 * 1024 * 1024, MaxWidth |-> 0, MaxHeight |-> 0,
     Quality |-> 85, OutputFormat |-> <<"p", "n", "g">>, TempDir |-> <<>>]

\* the options after ProcessImage's defaults are set (lines 720-732)
withDefaults(opts) ==
    [opts EXCEPT
        !.MaxSizeBytes = IF @ <= 0 THEN DefaultProcessImageOptions.MaxSizeBytes ELSE @,
        !.Quality = IF @ <= 0 THEN DefaultProcessImageOptions.Quality ELSE @,
        !.OutputFormat = IF @ = <<>> THEN DefaultProcessImageOptions.OutputFormat ELSE @,
        !.TempDir = IF @ = <<>> THEN OsTempDir ELSE @]

(***************************************************************************)
(* State                                                                   *)
(***************************************************************************)
VARIABLES
    \* a call of safeExecuteCommand: its arguments, its error, the processes it started
    cmdState, cmdName, cmdArgs, cmdConfig, cmdErr, cmdProcs,
    cmdOutcome,      \* what the process of that call did, "none" if cmd.Run() was not reached
    \* a call of ProcessARWToPNG:
    pc,              \* where the call is: idle, createTemp, exec, read, cleanup, done
    arwPath,         \* its arwPath argument
    options,         \* its options argument (after the defaults are set)
    onPath,          \* whether exec.LookPath finds darktable-cli
    fs,              \* the files that exist: path -> [size, mode]
    rawConfig,       \* the call's SecurityConfig
    cleanPath,       \* the validated input path
    tempPath,        \* the file os.CreateTemp created for this call, <<>> if none
    tempOpen,        \* whether the call holds tempOutput open
    procs,           \* the processes the call started
    warnings,        \* the warnings the call printed
    host,            \* what the host did at each request of the call, in order
    retData, retErr, \* what the call returns
    \* a call of ProcessImage:
    ipc,             \* where the call is: idle, loop, done
    encInput,        \* its input argument
    encOptions,      \* its options argument (after the defaults are set)
    decodeCalls,     \* how often the call has called decodeImage
    decOpened,       \* whether decodeImage opened the file of a path input
    img,             \* the decoded raster: originalWidth x originalHeight
    scaleFactor,     \* scaleFactor
    currentFactor,   \* currentFactor
    iterations,      \* the iterations of the resize loop so far
    candidate,       \* the size of the image encoded last
    target,          \* targetFactor of the last iteration
    previous,        \* the size of the image encoded before the last
    fullLen,         \* the length of the encoding at the original size
    encLen, encExt,  \* result and ext: the length of the bytes encoded last, and ext
    encErr,          \* the error the call returns
    written,         \* the file a wrapper of ProcessImage wrote: [by, name, len, err]
    \* a call of validateFilePath: its filePath argument and what it returns
    pathState, pathIn, pathOut, pathErr,
    \* a temp file acquired with secureCreateTempFile and released with secureCleanup:
    tmpState,        \* idle, acquired, released
    tmpFs,           \* the files that exist: path -> [size, mode]
    tmpConfig,       \* the policy passed to secureCreateTempFile
    tmpName,         \* the name of the file returned, <<>> if none
    tmpKeep,         \* keepTemp of the release
    tmpErr,          \* the error of the last of the calls
    tmpReleases,     \* how often secureCleanup was called on the file
    tmpFirst,        \* the files and the error after the first of these calls
    \* calls of ProcessARWToPNG and ProcessImageToTempFile running at the same time:
    heap,            \* the SecurityConfig values in memory, by address
    live,            \* the addresses a call still refers to
    shared,          \* the files that exist: path -> [owner, mode]
    call             \* of each call: [pc, kind, dir, keep, cfg, temp, runDir]

cmdVars == <<cmdState, cmdName, cmdArgs, cmdConfig, cmdErr, cmdProcs, cmdOutcome>>

rawVars == <<pc, arwPath, options, onPath, fs, rawConfig, cleanPath, tempPath, tempOpen,
             procs, warnings, host, retData, retErr>>

encVars == <<ipc, encInput, encOptions, decodeCalls, decOpened, img, scaleFactor, currentFactor,
             iterations, candidate, target, previous, fullLen, encLen, encExt, encErr,
             written>>

pathVars == <<pathState, pathIn, pathOut, pathErr>>

tmpVars == <<tmpState, tmpFs, tmpConfig, tmpName, tmpKeep, tmpErr, tmpReleases, tmpFirst>>

concVars == <<heap, live, shared, call>>

auxVars == <<pathVars, tmpVars, concVars>>

vars == <<cmdVars, rawVars, encVars, auxVars>>

(***************************************************************************)
(* safeExecuteCommand called directly                                      *)
(***************************************************************************)
Injection == <<"d", "a", "r", "k", "t", "a", "b", "l", "e", "-", "c", "l", "i", ";", " ", "r", "m", " ", "-", "r", "f", " ", "/">>

CmdNames ==
    {DarktableCli, Echo, Injection, <<"r", "m">>, <<"s", "h">>,
     <<"e", "c", "h", "o", "|", "s", "h">>, <<>>}

CmdArgLists ==
    {<<>>,
     <<<<"a">>>>,
     <<<<"-", "v">>, <<"x", ".", "p", "n", "g">>>>,
     <<<<"a">>, <<"b", ";", "c">>>>,
     <<<<".", ".", "/", "x">>>>,
     <<<<"a">>, <<".", ".", "\\", "x">>>>,
     <<<<"a", ".", ".", "b">>>>,
     <<<<"*">>, <<"~">>, <<" ">>>>,
     <<[i \in 1..MaxArgLen |-> "a"]>>,
     <<[i \in 1..(MaxArgLen + 1) |-> "a"]>>,
     <<<<"a">>, [i \in 1..(MaxArgLen + 1) |-> "a"]>>}
    \cup {<<<<"a", c, "b">>>> : c \in DangerousCommandCharSet}

\* the default policy, an empty allow-list, and a caller's own policy whose
\* allow-list holds a name with shell metacharacters
CmdConfigs ==
    {DefaultSecurityConfig,
     [DefaultSecurityConfig EXCEPT !.AllowedCommands = {}],
     [DefaultSecurityConfig EXCEPT !.AllowedCommands = {DarktableCli, Injection, <<"r", "m">>},
                                   !.AllowedTempDir = <<"w">>,
                                   !.CommandTimeout = 5]}


\* one call of safeExecuteCommand(ctx, cmdName, args, config)
SafeExecuteCommandCall ==
    /\ cmdState = "idle"
    /\ \E name \in CmdNames, args \in CmdArgLists, config \in CmdConfigs :
        \E reached \in {validateCommandName(name, config) = Nil
                        /\ validateCommandArgs(args) = Nil} :
            \E outcome \in IF reached THEN ProcOutcomes ELSE {"exit0"} :
                \E r \in {safeExecuteCommand(name, args, config, outcome)} :
                    /\ cmdOutcome' = IF reached THEN outcome ELSE "none"
                    /\ cmdState' = "done"
                    /\ cmdName' = name
                    /\ cmdArgs' = args
                    /\ cmdConfig' = config
                    /\ cmdErr' = r.err
                    /\ cmdProcs' = r.procs
                    /\ UNCHANGED <<rawVars, encVars, auxVars>>

\* the caller has the error
SafeExecuteCommandReturn ==
    /\ cmdState = "done"
    /\ cmdState' = "idle"
    /\ cmdName' = <<>>
    /\ cmdArgs' = <<>>
    /\ cmdConfig' = DefaultSecurityConfig
    /\ cmdErr' = Nil
    /\ cmdProcs' = <<>>
    /\ cmdOutcome' = "none"
    /\ UNCHANGED <<rawVars, encVars, auxVars>>

(***************************************************************************)
(* ProcessARWToPNG                                                         *)
(***************************************************************************)
NilBytes == [nil |-> TRUE, len |-> 0]
Bytes(n) == [nil |-> FALSE, len |-> n]

PhotoArw == <<"p", "h", "o", "t", "o", ".", "a", "r", "w">>
PhotoTxt == <<"p", "h", "o", "t", "o", ".", "t", "x", "t">>
DollarArw == <<"p", "$", ".", "a", "r", "w">>

RawPaths ==
    {PhotoArw,
     <<".", "/">> \o PhotoArw,
     <<"a", "/", ".", ".", "/", ".", ".", "/", "e", "t", "c", "/", "p", "a", "s", "s", "w", "d">>,
     <<"/", "r", "a", "w", "/">> \o PhotoArw,
     PhotoTxt,
     DollarArw}

\* the input files the call can find: none, files of 40 MB, files over the ceiling
RawFileSystems ==
    {<<>>} \cup
    {[p \in {PhotoArw, PhotoTxt, DollarArw} |-> [size |-> n, mode |-> "0644"]] :
        n \in {40 * 1024 * 1024, MaxFileSize + 1}}

\* ARWProcessOptions; Exposure, Contrast and Saturation are whole numbers here
RawOptions ==
    [Bitness : {8, 10, 16},
     Compression : {-1, 6, 10},
     ColorSpace : {"sRGB", "ProPhoto", "CMYK"},
     WhiteBalance : {"camera", "sepia"},
     Exposure : {0, 2},
     Contrast : {0},
     Saturation : {0},
     TempDir : {<<>>, <<"t">>},
     KeepTemp : BOOLEAN]

DefaultARWProcessOptions ==
    [Bitness |-> 16, Compression |-> 6, ColorSpace |-> "sRGB",
     WhiteBalance |-> "camera", Exposure |-> 0, Contrast |-> 0, Saturation |-> 0,
     TempDir |-> <<>>, KeepTemp |-> FALSE]

\* the random part of a name made by os.CreateTemp
TempRandoms == {<<"1">>, <<"7", "3">>}

ArwOutputPrefix == <<"a", "r", "w", "_", "o", "u", "t", "p", "u", "t", "_">>
PngSuffix == <<".", "p", "n", "g">>
ProcessedPrefix == <<"p", "r", "o", "c", "e", "s", "s", "e", "d", "_">>

\* what the converter does to the output file while it runs
OutputEffects == {"none", "written", "oversize", "deleted"}


\* the call returns (data, err) without having created a temp file
RawReturnEarly(err) ==
    /\ pc' = "done"
    /\ retData' = NilBytes
    /\ retErr' = err

\* ProcessARWToPNG up to the availability probe (lines 872-906), on the files
\* and the PATH it finds
RawCall ==
    \E path \in RawPaths, opts \in RawOptions, files \in RawFileSystems,
       installed \in BOOLEAN :
        LET o == IF opts.TempDir = <<>> THEN [opts EXCEPT !.TempDir = OsTempDir] ELSE opts
            c == [DefaultSecurityConfig EXCEPT !.AllowedTempDir = o.TempDir]
            v == validateFilePath(path, c)
        IN  /\ pc = "idle"
            /\ arwPath' = path
            /\ options' = o
            /\ onPath' = installed
            /\ fs' = files
            /\ rawConfig' = c
            /\ cleanPath' = v.path
            /\ tempPath' = <<>>
            /\ tempOpen' = FALSE
            /\ procs' = <<>>
            /\ warnings' = <<>>
            /\ host' = <<>>
            /\ IF v.err # Nil
               THEN RawReturnEarly(NewSecurityError("path_validation",
                                       "invalid ARW file path", v.err))
               ELSE IF validateFileExtension(v.path) # Nil
               THEN RawReturnEarly(NewSecurityError("extension_validation",
                                       "invalid file extension for ARW",
                                       validateFileExtension(v.path)))
               ELSE IF validateFileSize(files, v.path, MaxFileSize) # Nil
               THEN RawReturnEarly(NewSecurityError("size_validation",
                                       "ARW file too large",
                                       validateFileSize(files, v.path, MaxFileSize)))
               ELSE IF v.path \notin DOMAIN files
               THEN RawReturnEarly(NewError("ARW file does not exist"))
               ELSE IF ~isDarktableAvailable(installed)
               THEN RawReturnEarly(NewError("darktable-cli is not available"))
               ELSE /\ pc' = "createTemp"
                    /\ retData' = NilBytes
                    /\ retErr' = Nil
            /\ UNCHANGED <<cmdVars, encVars, auxVars>>

\* secureCreateTempFile("arw_output_*.png", config) (lines 908-913)
RawCreateTemp ==
    \E random \in TempRandoms, outcome \in CreateOutcomes, removeOk \in BOOLEAN :
        LET t == secureCreateTempFile(fs, ArwOutputPrefix, PngSuffix, rawConfig,
                                      random, outcome, removeOk)
        IN  /\ pc = "createTemp"
            /\ outcome # "chmodFails" => removeOk
            /\ fs' = t.fs
            /\ tempPath' = t.created
            /\ host' = host \o <<[op |-> "create", did |-> outcome]>>
                         \o (IF outcome = "chmodFails"
                             THEN <<[op |-> "remove",
                                     did |-> IF removeOk THEN "ok" ELSE "fails"]>>
                             ELSE <<>>)
            /\ IF t.err # Nil
               THEN /\ pc' = "done"
                    /\ tempOpen' = FALSE
                    /\ retErr' = Wrap("failed to create secure temp output file", t.err)
               ELSE /\ pc' = "exec"
                    /\ tempOpen' = TRUE
                    /\ retErr' = Nil
            /\ UNCHANGED <<arwPath, options, onPath, rawConfig, cleanPath, procs,
                           warnings, retData, cmdVars, encVars, auxVars>>

\* safeExecuteDarktableCommand(cleanPath, tempOutputPath, options) (lines 926-929);
\* a converter that ran may have written, overfilled or removed the output file
RawExecute ==
    \E outcome \in ProcOutcomes, effect \in OutputEffects :
        LET r == safeExecuteDarktableCommand(cleanPath, tempPath, options, outcome)
        IN  /\ pc = "exec"
            /\ r.procs = <<>> => (outcome = "startError" /\ effect = "none")
            /\ outcome = "startError" => effect = "none"
            /\ procs' = procs \o r.procs
            /\ host' = IF HasMessage(r.err, "failed to build command args")
                          \/ HasMessage(r.err, "invalid command")
                          \/ HasMessage(r.err, "invalid arguments")
                       THEN host
                       ELSE host \o <<[op |-> "run", did |-> outcome],
                                      [op |-> "output", did |-> effect]>>
            /\ fs' = CASE effect = "written" ->
                            PutFile(fs, tempPath, [size |-> 2048, mode |-> "0600"])
                       [] effect = "oversize" ->
                            PutFile(fs, tempPath, [size |-> MaxFileSize + 1, mode |-> "0600"])
                       [] effect = "deleted" -> RemoveFile(fs, tempPath)
                       [] OTHER -> fs
            /\ IF r.err # Nil
               THEN /\ pc' = "cleanup"
                    /\ retErr' = Wrap("darktable-cli execution failed", r.err)
               ELSE /\ pc' = "read"
                    /\ retErr' = Nil
            /\ UNCHANGED <<arwPath, options, onPath, rawConfig, cleanPath, tempPath,
                           tempOpen, warnings, retData, cmdVars, encVars, auxVars>>

\* os.ReadFile(tempOutputPath) and the size check of the output (lines 931-942)
RawRead ==
    \E readOk \in BOOLEAN :
        /\ pc = "read"
        /\ IF tempPath \notin DOMAIN fs \/ ~readOk
           THEN /\ retData' = NilBytes
                /\ retErr' = Wrap("failed to read output PNG file", NewError("read"))
           ELSE IF fs[tempPath].size > MaxFileSize
           THEN /\ retData' = NilBytes
                /\ retErr' = NewSecurityError("size_validation",
                                              "output PNG file too large", Nil)
           ELSE /\ retData' = Bytes(fs[tempPath].size)
                /\ retErr' = Nil
        /\ tempPath \notin DOMAIN fs => readOk
        /\ host' = Append(host, [op |-> "read",
                                 did |-> IF tempPath \in DOMAIN fs /\ readOk
                                         THEN "ok" ELSE "fails"])
        /\ pc' = "cleanup"
        /\ UNCHANGED <<arwPath, options, onPath, fs, rawConfig, cleanPath, tempPath,
                       tempOpen, procs, warnings, cmdVars, encVars, auxVars>>

\* a deferred function that returns the cleanup failure in place of the result
deferredResultMasked(data, err, closeErr, cleanupErr) ==
    IF cleanupErr # Nil THEN [data |-> NilBytes, err |-> cleanupErr]
    ELSE IF closeErr # Nil THEN [data |-> NilBytes, err |-> closeErr]
    ELSE [data |-> data, err |-> err]

\* what the call returns once the deferred function has run: the function has
\* no named results to assign to, it prints closeErr and cleanupErr
deferredResult(data, err, closeErr, cleanupErr) == [data |-> data, err |-> err]

\* the deferred function (lines 915-924): Close, then secureCleanup; a failure of
\* either is printed, and the call returns what it had
RawCleanup ==
    \E closeOk \in BOOLEAN, removeOk \in BOOLEAN :
        LET c == secureCleanup(fs, tempPath, options.KeepTemp, removeOk)
            closeErr == IF closeOk THEN Nil ELSE NewError("close")
            ret == deferredResult(retData, retErr, closeErr, c.err)
        IN  /\ pc = "cleanup"
            /\ retData' = ret.data
            /\ retErr' = ret.err
            /\ (options.KeepTemp \/ tempPath \notin DOMAIN fs) => removeOk
            /\ host' = host \o <<[op |-> "close",
                                   did |-> IF closeOk THEN "ok" ELSE "fails"]>>
                         \o (IF options.KeepTemp THEN <<>>
                             ELSE <<[op |-> "remove",
                                     did |-> IF removeOk THEN "ok" ELSE "fails"]>>)
            /\ tempOpen' = FALSE
            /\ fs' = c.fs
            /\ warnings' =
                  (IF closeOk THEN <<>> ELSE <<"failed to close temp output file">>)
                  \o (IF c.err = Nil THEN <<>>
                      ELSE <<"failed to cleanup temp output file">>)
            /\ pc' = "done"
            /\ UNCHANGED <<arwPath, options, onPath, rawConfig, cleanPath, tempPath,
                           procs, cmdVars, encVars, auxVars>>

\* the caller has the result; the next call starts from a fresh file system
RawReturn ==
    /\ pc = "done"
    /\ pc' = "idle"
    /\ arwPath' = <<>>
    /\ options' = DefaultARWProcessOptions
    /\ onPath' = TRUE
    /\ fs' = <<>>
    /\ rawConfig' = DefaultSecurityConfig
    /\ cleanPath' = <<>>
    /\ tempPath' = <<>>
    /\ tempOpen' = FALSE
    /\ procs' = <<>>
    /\ warnings' = <<>>
    /\ host' = <<>>
    /\ retData' = NilBytes
    /\ retErr' = Nil
    /\ UNCHANGED <<cmdVars, encVars, auxVars>>

NextRaw ==
    RawCall \/ RawCreateTemp \/ RawExecute \/ RawRead \/ RawCleanup \/ RawReturn


(***************************************************************************)
(* ProcessImage                                                            *)
(***************************************************************************)
\* rasters of 12, 6 and 3 megapixels
LargeRasters ==
    {[w |-> 4000, h |-> 3000], [w |-> 3000, h |-> 2000], [w |-> 2000, h |-> 1500],
     [w |-> 100, h |-> 100], [w |-> 4000, h |-> 2000], [w |-> 2048, h |-> 2048],
     [w |-> 2000, h |-> 1000]}

Rasters == {[w |-> x, h |-> y] : x \in 1..MaxDim, y \in 1..MaxDim} \cup LargeRasters

PhotoPng == <<"i", "m", "a", "g", "e", "s", "/", "p", "h", "o", "t", "o", ".", "p", "n", "g">>

NoFile == [exists |-> FALSE, size |-> 0]

BytesInput(n, r) ==
    [kind |-> "bytes", path |-> <<>>, file |-> NoFile, len |-> n, content |-> r]

PathInput(path, f, r) ==
    [kind |-> "path", path |-> path, file |-> f, len |-> 0, content |-> r]

\* byte buffers that decode to each raster, a corrupt and an oversize buffer, paths
\* that pass and fail the validation chain, and a value of another type
EncInputs ==
    {BytesInput(1024, r) : r \in Rasters} \cup
    {BytesInput(1024, NoImage),
     BytesInput(MaxFileSize + 1, [w |-> 2, h |-> 2]),
     PathInput(PhotoPng, [exists |-> TRUE, size |-> 1024], [w |-> 2, h |-> 3]),
     PathInput(PhotoPng, NoFile, NoImage),
     BytesInput(MaxFileSize, [w |-> 2, h |-> 2]),
     PathInput(PhotoPng, [exists |-> TRUE, size |-> MaxFileSize], [w |-> 3, h |-> 2]),
     PathInput(PhotoPng, [exists |-> TRUE, size |-> MaxFileSize + 1], [w |-> 3, h |-> 2]),
     PathInput(PhotoTxt, [exists |-> TRUE, size |-> MaxFileSize + 1], [w |-> 3, h |-> 2]),
     PathInput(<<"/">> \o PhotoTxt, NoFile, NoImage),
     PathInput(<<"a", "/", ".", ".", "/", ".", ".", "/", "e", "t", "c", "/", "p", "a", "s", "s", "w", "d">>,
               [exists |-> TRUE, size |-> 1024], NoImage),
     [kind |-> "other", path |-> <<>>, file |-> NoFile, len |-> 0, content |-> NoImage]}

EncOptionSet ==
    [MaxSizeBytes : {0, 1, 2},
     MaxWidth : {0, 1, 2},
     MaxHeight : {0, 1, 3},
     Quality : {0},
     OutputFormat : {<<>>, <<"P", "N", "G">>, <<"j", "p", "e", "g">>, <<"g", "i", "f">>},
     TempDir : {<<>>}]

\* no wrapper of ProcessImage has written a file
NoWrite == [by |-> "none", name |-> <<>>, len |-> 0, err |-> Nil]

\* ProcessImage returns (result, ext, err)
EncReturnWith(len, ext, err) ==
    /\ ipc' = "done"
    /\ encLen' = len
    /\ encExt' = ext
    /\ encErr' = err

\* ProcessImage up to the loop (lines 719-770): the defaults, decodeImage, the
\* encoding at the original size, the scale factor
EncCall ==
    /\ ipc = "idle"
    /\ \E input \in EncInputs, opts \in EncOptionSet, openOk \in BOOLEAN :
        /\ input.kind # "path" => openOk
        /\ \E o \in {withDefaults(opts)}, d \in {decodeImage(input, openOk)},
              size \in 1..MaxEncoded :
            LET e == encodeImageWithCompression(d.img, o, size)
            IN  /\ encInput' = input
                /\ encOptions' = o
                /\ decodeCalls' = 1
                /\ decOpened' = d.opened
                /\ img' = d.img
                /\ iterations' = 0
                /\ currentFactor' = One
                /\ written' = NoWrite
                /\ target' = One
                /\ previous' = NoImage
                /\ fullLen' = IF d.err = Nil THEN e.len ELSE 0
                /\ IF d.err # Nil
                   THEN /\ EncReturnWith(0, <<>>, Wrap("failed to decode image", d.err))
                        /\ candidate' = NoImage
                        /\ scaleFactor' = One
                   ELSE IF e.err # Nil
                   THEN /\ EncReturnWith(0, <<>>, Wrap("failed to encode image", e.err))
                        /\ candidate' = NoImage
                        /\ scaleFactor' = One
                   ELSE IF fitsBudget(e.len, o)
                   THEN /\ EncReturnWith(e.len, e.ext, Nil)
                        /\ candidate' = d.img
                        /\ scaleFactor' = One
                   ELSE /\ ipc' = "loop"
                        /\ encLen' = e.len
                        /\ encExt' = e.ext
                        /\ encErr' = Nil
                        /\ candidate' = d.img
                        /\ scaleFactor' = chooseScaleFactor(d.img.w, d.img.h, o)
    /\ UNCHANGED <<cmdVars, rawVars, auxVars>>

\* one iteration of the resize loop (lines 772-799)
EncIterate ==
    /\ ipc = "loop"
    /\ ~FloatLess(currentFactor, MinFactor)
    /\ \E size \in 1..MaxEncoded,
          targetFactor \in {targetFactorOf(currentFactor, scaleFactor)} :
        \E newWidth \in {ScaleDim(img.w, targetFactor)},
           newHeight \in {ScaleDim(img.h, targetFactor)} :
            LET scaledImg == scaledSize(img, newWidth, newHeight)
                e == encodeImageWithCompression(scaledImg, encOptions, size)
            IN  /\ iterations' = iterations + 1
                /\ candidate' = scaledImg
                /\ target' = targetFactor
                /\ previous' = candidate
                /\ IF e.err # Nil
                   THEN /\ EncReturnWith(0, <<>>,
                                         Wrap("failed to encode scaled image", e.err))
                        /\ UNCHANGED currentFactor
                   ELSE IF fitsBudget(e.len, encOptions)
                   THEN /\ EncReturnWith(e.len, e.ext, Nil)
                        /\ UNCHANGED currentFactor
                   ELSE /\ ipc' = "loop"
                        /\ encLen' = e.len
                        /\ encExt' = e.ext
                        /\ encErr' = Nil
                        /\ currentFactor' = FloatMul(targetFactor, Decay)
    /\ UNCHANGED <<encInput, encOptions, decodeCalls, decOpened, img, scaleFactor, fullLen,
                   written, cmdVars, rawVars, auxVars>>

\* the loop condition fails: the last result is returned (lines 801-802)
EncExhausted ==
    /\ ipc = "loop"
    /\ FloatLess(currentFactor, MinFactor)
    /\ ipc' = "done"
    /\ UNCHANGED <<encInput, encOptions, decodeCalls, decOpened, img, scaleFactor, currentFactor,
                   iterations, candidate, target, previous, fullLen, encLen, encExt, encErr,
                   written, cmdVars, rawVars, auxVars>>

\* the paths a caller of ProcessImageToFile names
OutputPaths == {<<"o", "u", "t">>, <<"o", ".", "P", "N", "G">>, <<"o", ".", "j", "p", "g">>}

\* ProcessImageToFile after ProcessImage returned (lines 808-817): the error is
\* passed on, or the data is written to outputPath, with ext appended unless
\* outputPath ends with it
EncToFile ==
    /\ ipc = "done"
    /\ \E outputPath \in OutputPaths, writeOk \in BOOLEAN :
        /\ encErr # Nil => (writeOk /\ outputPath = <<"o", "u", "t">>)
        /\ written' =
              IF encErr # Nil
              THEN [by |-> "file", name |-> <<>>, len |-> 0, err |-> encErr]
              ELSE LET name == IF ~hasSuffixIgnoreCase(outputPath, encExt)
                               THEN outputPath \o encExt ELSE outputPath
                   IN  IF writeOk
                       THEN [by |-> "file", name |-> name, len |-> encLen, err |-> Nil]
                       ELSE [by |-> "file", name |-> <<>>, len |-> 0,
                             err |-> NewError("open")]
    /\ ipc' = "wrote"
    /\ UNCHANGED <<encInput, encOptions, decodeCalls, decOpened, img, scaleFactor, currentFactor,
                   iterations, candidate, target, previous, fullLen, encLen, encExt, encErr,
                   cmdVars, rawVars, auxVars>>

\* ProcessImageToTempFile after ProcessImage returned (lines 823-868): the error
\* is passed on, or the data is written to a file made by
\* secureCreateTempFile("processed_*.png", config) in options.TempDir, which is
\* removed again when the write fails
EncToTempFile ==
    /\ ipc = "done"
    /\ \E tempDir \in {<<>>, <<"w">>}, outcome \in {"ok", "createFails"},
          writeOk \in BOOLEAN :
        /\ encErr # Nil => (writeOk /\ outcome = "ok" /\ tempDir = <<>>)
        /\ outcome # "ok" => writeOk
        /\ LET cfg == [DefaultSecurityConfig EXCEPT
                           !.AllowedTempDir = IF tempDir = <<>> THEN OsTempDir ELSE tempDir]
               t == secureCreateTempFile(<<>>, ProcessedPrefix, PngSuffix, cfg, <<"1">>,
                                         outcome, TRUE)
           IN  written' =
                 IF encErr # Nil
                 THEN [by |-> "temp", name |-> <<>>, len |-> 0, err |-> encErr]
                 ELSE IF t.err # Nil
                 THEN [by |-> "temp", name |-> <<>>, len |-> 0,
                       err |-> Wrap("failed to create secure temp file", t.err)]
                 ELSE IF ~writeOk
                 THEN [by |-> "temp", name |-> <<>>, len |-> 0,
                       err |-> Wrap("failed to write temp file", NewError("write"))]
                 ELSE [by |-> "temp", name |-> t.name, len |-> encLen, err |-> Nil]
    /\ ipc' = "wrote"
    /\ UNCHANGED <<encInput, encOptions, decodeCalls, decOpened, img, scaleFactor, currentFactor,
                   iterations, candidate, target, previous, fullLen, encLen, encExt, encErr,
                   cmdVars, rawVars, auxVars>>

\* the caller has the result
EncReturn ==
    /\ ipc \in {"done", "wrote"}
    /\ written' = NoWrite
    /\ ipc' = "idle"
    /\ encInput' = BytesInput(0, NoImage)
    /\ encOptions' = DefaultProcessImageOptions
    /\ decodeCalls' = 0
    /\ decOpened' = FALSE
    /\ img' = NoImage
    /\ scaleFactor' = One
    /\ currentFactor' = One
    /\ iterations' = 0
    /\ candidate' = NoImage
    /\ target' = One
    /\ previous' = NoImage
    /\ fullLen' = 0
    /\ encLen' = 0
    /\ encExt' = <<>>
    /\ encErr' = Nil
    /\ UNCHANGED <<cmdVars, rawVars, auxVars>>

NextEncode ==
    EncCall \/ EncIterate \/ EncExhausted \/ EncToFile \/ EncToTempFile \/ EncReturn

(***************************************************************************)
(* validateFilePath                                                        *)
(***************************************************************************)
PathAlphabet == {"a", ".", "/"}

ImagesPhotoPng == <<"i", "m", "a", "g", "e", "s", "/", "p", "h", "o", "t", "o", ".", "p", "n", "g">>
EtcPasswdClimb == <<"a", "/", ".", ".", "/", ".", ".", "/", "e", "t", "c", "/", "p", "a", "s", "s", "w", "d">>
ImagesUpPhotoPng == <<"i", "m", "a", "g", "e", "s", "/", ".", ".", "/", "p", "h", "o", "t", "o", ".", "p", "n", "g">>

\* a relative path of n characters
LongPath(n) == [i \in 1..n |-> IF i % 9 = 0 THEN "/" ELSE "a"]

\* every path of up to MaxPathChars characters of the alphabet, the paths the
\* callers' documentation names, paths around the length ceiling, a path with a
\* shell metacharacter and paths with a backslash
PathInputs ==
    UNION {[1..n -> PathAlphabet] : n \in 0..MaxPathChars} \cup
    {ImagesPhotoPng, EtcPasswdClimb, ImagesUpPhotoPng,
     <<"a", "/", ".", ".", "/", "a">>,
     LongPath(MaxPathLen), LongPath(MaxPathLen + 1),
     <<".", "/">> \o LongPath(MaxPathLen),
     <<"p", "$", ".", "a", "r", "w">>,
     <<"a", "\\", ".", ".", "\\", "b">>,
     <<".", ".", "\\", "b">>}

\* one call of validateFilePath(filePath, config)
ValidateFilePathCall ==
    \E filePath \in PathInputs :
        \E v \in {validateFilePath(filePath, DefaultSecurityConfig)} :
            /\ pathState' = "done"
            /\ pathIn' = filePath
            /\ pathOut' = v.path
            /\ pathErr' = v.err
            /\ UNCHANGED <<cmdVars, rawVars, encVars, tmpVars, concVars>>

NextPath == ValidateFilePathCall

(***************************************************************************)
(* secureCreateTempFile and secureCleanup                                  *)
(***************************************************************************)

\* the directories a caller's policy names
TempDirs == {OsTempDir, <<"t">>, <<"w", "/">>}

\* the files in place before the call: none, or another caller's file
TempFileSystems ==
    {<<>>} \cup
    {[p \in {CreateTempName(dir, ArwOutputPrefix, <<"9">>, PngSuffix)} |->
          [size |-> 7, mode |-> "0644"]] : dir \in TempDirs}

\* tempFile, err := secureCreateTempFile(pattern, config)
AcquireTemp ==
    /\ tmpState = "idle"
    /\ \E dir \in TempDirs, prefix \in {ArwOutputPrefix, ProcessedPrefix},
          random \in TempRandoms, files \in TempFileSystems,
          outcome \in CreateOutcomes, removeOk \in BOOLEAN :
        LET cfg == [DefaultSecurityConfig EXCEPT !.AllowedTempDir = dir]
            t == secureCreateTempFile(files, prefix, PngSuffix, cfg, random, outcome,
                                      removeOk)
        IN  /\ outcome # "chmodFails" => removeOk
            /\ tmpConfig' = cfg
            /\ tmpFs' = t.fs
            /\ tmpName' = t.name
            /\ tmpErr' = t.err
            /\ tmpKeep' = FALSE
            /\ tmpReleases' = 0
            /\ tmpFirst' = [fs |-> t.fs, err |-> Nil]
            /\ tmpState' = IF t.err = Nil THEN "acquired" ELSE "released"
    /\ UNCHANGED <<cmdVars, rawVars, encVars, pathVars, concVars>>

\* err := secureCleanup(tempFile.Name(), keepTemp)
ReleaseTemp ==
    /\ tmpState = "acquired"
    /\ \E keepTemp \in BOOLEAN, removeOk \in BOOLEAN :
        LET c == secureCleanup(tmpFs, tmpName, keepTemp, removeOk)
        IN  /\ keepTemp => removeOk
            /\ tmpFs' = c.fs
            /\ tmpErr' = c.err
            /\ tmpKeep' = keepTemp
            /\ tmpReleases' = 1
            /\ tmpFirst' = c
            /\ tmpState' = "released"
    /\ UNCHANGED <<tmpConfig, tmpName, cmdVars, rawVars, encVars, pathVars, concVars>>

\* err := secureCleanup(tempFile.Name(), keepTemp), called again on the same path
ReleaseTempAgain ==
    /\ tmpState = "released"
    /\ tmpReleases >= 1
    /\ tmpReleases < MaxReleases
    /\ \E removeOk \in BOOLEAN :
        LET c == secureCleanup(tmpFs, tmpName, tmpKeep, removeOk)
        IN  /\ (tmpKeep \/ tmpName \notin DOMAIN tmpFs) => removeOk
            /\ tmpFs' = c.fs
            /\ tmpErr' = c.err
            /\ tmpReleases' = tmpReleases + 1
    /\ UNCHANGED <<tmpState, tmpConfig, tmpName, tmpKeep, tmpFirst, cmdVars, rawVars,
                   encVars, pathVars, concVars>>

\* the caller goes on
TempReturn ==
    /\ tmpState = "released"
    /\ tmpState' = "idle"
    /\ tmpFs' = <<>>
    /\ tmpConfig' = DefaultSecurityConfig
    /\ tmpName' = <<>>
    /\ tmpKeep' = FALSE
    /\ tmpErr' = Nil
    /\ tmpReleases' = 0
    /\ tmpFirst' = [fs |-> <<>>, err |-> Nil]
    /\ UNCHANGED <<cmdVars, rawVars, encVars, pathVars, concVars>>

NextTemp == AcquireTemp \/ ReleaseTemp \/ ReleaseTempAgain \/ TempReturn

(***************************************************************************)
(* Calls running at the same time                                          *)
(***************************************************************************)
Calls == 1..NumCalls

\* room for the policy of every call and the one safeExecuteDarktableCommand makes
ConfigAddrs == 1..(NumCalls + 1)

IdleCall ==
    [pc |-> "idle", kind |-> "ProcessARWToPNG", dir |-> <<>>, keep |-> FALSE,
     cfg |-> 0, temp |-> <<>>, runDir |-> <<>>]

\* a DefaultSecurityConfig that hands every caller the same value
sharedSecurityConfig(h, inUse) ==
    [heap |-> IF 1 \in inUse THEN h ELSE [h EXCEPT ![1] = DefaultSecurityConfig],
     addr |-> 1]

\* DefaultSecurityConfig(): &SecurityConfig{...} is a new value at an address no
\* one refers to
newSecurityConfig(h, inUse) ==
    LET a == CHOOSE x \in ConfigAddrs \ inUse : \A y \in ConfigAddrs \ inUse : x <= y
    IN  [heap |-> [h EXCEPT ![a] = DefaultSecurityConfig], addr |-> a]

\* a call starts: options.TempDir gets its default and
\* config := DefaultSecurityConfig() (lines 874-879, 828-833)
ConcCall(c) ==
    /\ call[c].pc = "idle"
    /\ \E kind \in {"ProcessARWToPNG", "ProcessImageToTempFile"},
          dir \in {<<>>, <<"a">>}, keep \in BOOLEAN,
          r \in {newSecurityConfig(heap, live)} :
        /\ kind = "ProcessImageToTempFile" => ~keep
        /\ heap' = r.heap
        /\ live' = live \cup {r.addr}
        /\ call' = [call EXCEPT ![c] =
                        [IdleCall EXCEPT !.pc = "setDir", !.kind = kind, !.keep = keep,
                                         !.cfg = r.addr,
                                         !.dir = IF dir = <<>> THEN OsTempDir ELSE dir]]
    /\ UNCHANGED <<shared, cmdVars, rawVars, encVars, pathVars, tmpVars>>

\* config.AllowedTempDir = options.TempDir (lines 880, 834)
ConcSetDir(c) ==
    /\ call[c].pc = "setDir"
    /\ heap' = [heap EXCEPT ![call[c].cfg].AllowedTempDir = call[c].dir]
    /\ call' = [call EXCEPT ![c].pc = "create"]
    /\ UNCHANGED <<live, shared, cmdVars, rawVars, encVars, pathVars, tmpVars>>

\* secureCreateTempFile(pattern, config) (lines 909, 837): os.CreateTemp opens the
\* file with O_EXCL, under a name no file has
ConcCreateTemp(c) ==
    /\ call[c].pc = "create"
    /\ \E random \in TempRandoms :
        LET prefix == IF call[c].kind = "ProcessARWToPNG"
                      THEN ArwOutputPrefix ELSE ProcessedPrefix
            name == CreateTempName(heap[call[c].cfg].AllowedTempDir, prefix, random,
                                   PngSuffix)
        IN  /\ name \notin DOMAIN shared
            /\ shared' = PutFile(shared, name, [owner |-> c, mode |-> "0600"])
            /\ call' = [call EXCEPT ![c].temp = name,
                                    ![c].pc = IF call[c].kind = "ProcessARWToPNG"
                                              THEN "exec" ELSE "done"]
    /\ UNCHANGED <<heap, live, cmdVars, rawVars, encVars, pathVars, tmpVars>>

\* safeExecuteDarktableCommand makes its own policy (line 633); cmd.Dir is that
\* policy's AllowedTempDir (line 190)
ConcExec(c) ==
    /\ call[c].pc = "exec"
    /\ \E r \in {newSecurityConfig(heap, live)} :
        /\ heap' = r.heap
        /\ call' = [call EXCEPT ![c].runDir = r.heap[r.addr].AllowedTempDir,
                                ![c].pc = "cleanup"]
    /\ UNCHANGED <<live, shared, cmdVars, rawVars, encVars, pathVars, tmpVars>>

\* the deferred secureCleanup(tempOutputPath, options.KeepTemp) (line 921)
ConcCleanup(c) ==
    /\ call[c].pc = "cleanup"
    /\ shared' = secureCleanup(shared, call[c].temp, call[c].keep, TRUE).fs
    /\ call' = [call EXCEPT ![c].pc = "done"]
    /\ UNCHANGED <<heap, live, cmdVars, rawVars, encVars, pathVars, tmpVars>>

\* the call returns: nothing refers to its policy any more; the caller takes a
\* file that was left for it
ConcReturn(c) ==
    /\ call[c].pc = "done"
    /\ live' = live \ {call[c].cfg}
    /\ shared' = IF call[c].temp \in DOMAIN shared /\ shared[call[c].temp].owner = c
                 THEN RemoveFile(shared, call[c].temp) ELSE shared
    /\ call' = [call EXCEPT ![c] = IdleCall]
    /\ UNCHANGED <<heap, cmdVars, rawVars, encVars, pathVars, tmpVars>>

NextConc ==
    \E c \in Calls :
        \/ ConcCall(c)
        \/ ConcSetDir(c)
        \/ ConcCreateTemp(c)
        \/ ConcExec(c)
        \/ ConcCleanup(c)
        \/ ConcReturn(c)

Init ==
    /\ cmdState = "idle"
    /\ cmdName = <<>>
    /\ cmdArgs = <<>>
    /\ cmdConfig = DefaultSecurityConfig
    /\ cmdErr = Nil
    /\ cmdProcs = <<>>
    /\ cmdOutcome = "none"
    /\ pc = "idle"
    /\ arwPath = <<>>
    /\ options = DefaultARWProcessOptions
    /\ onPath = TRUE
    /\ fs = <<>>
    /\ rawConfig = DefaultSecurityConfig
    /\ cleanPath = <<>>
    /\ tempPath = <<>>
    /\ tempOpen = FALSE
    /\ procs = <<>>
    /\ warnings = <<>>
    /\ host = <<>>
    /\ retData = NilBytes
    /\ retErr = Nil
    /\ ipc = "idle"
    /\ encInput = BytesInput(0, NoImage)
    /\ encOptions = DefaultProcessImageOptions
    /\ decodeCalls = 0
    /\ decOpened = FALSE
    /\ img = NoImage
    /\ scaleFactor = One
    /\ currentFactor = One
    /\ iterations = 0
    /\ candidate = NoImage
    /\ fullLen = 0
    /\ encLen = 0
    /\ encExt = <<>>
    /\ encErr = Nil
    /\ pathState = "idle"
    /\ pathIn = <<>>
    /\ pathOut = <<>>
    /\ pathErr = Nil
    /\ tmpState = "idle"
    /\ tmpFs = <<>>
    /\ tmpConfig = DefaultSecurityConfig
    /\ tmpName = <<>>
    /\ tmpKeep = FALSE
    /\ tmpErr = Nil
    /\ tmpReleases = 0
    /\ tmpFirst = [fs |-> <<>>, err |-> Nil]
    /\ written = NoWrite
    /\ target = One
    /\ previous = NoImage
    /\ heap = [a \in ConfigAddrs |-> DefaultSecurityConfig]
    /\ live = {}
    /\ shared = <<>>
    /\ call = [c \in Calls |-> IdleCall]

SpecEncode == Init /\ [][NextEncode]_vars

SpecRaw == Init /\ [][NextRaw]_vars

NextExec == SafeExecuteCommandCall \/ SafeExecuteCommandReturn

SpecExec == Init /\ [][NextExec]_vars

SpecPath == Init /\ [][NextPath]_vars

SpecTemp == Init /\ [][NextTemp]_vars

SpecConc == Init /\ [][NextConc]_vars

(***************************************************************************)
(* Claims                                                                  *)
(***************************************************************************)
\* the name is on the policy's allow-list and holds no shell metacharacter
CmdNameAcceptable ==
    /\ cmdName \in cmdConfig.AllowedCommands
    /\ \A i \in 1..Len(cmdName) : cmdName[i] \notin DangerousCommandCharSet

\* C1: safeExecuteCommand starts a process only for a name that is on the
\* policy's allow-list and free of shell metacharacters; for every other name it
\* returns an error and starts nothing.  "darktable-cli; rm -rf /" is rejected
\* even when allow-listed, and an allow-listed "darktable-cli" is not rejected
\* as a command.
C1_SpawnOnlyAllowListed ==
    cmdState = "done" =>
        /\ cmdProcs # <<>> => CmdNameAcceptable
        /\ ~CmdNameAcceptable => cmdErr # Nil /\ cmdProcs = <<>>
        /\ cmdName = Injection => cmdErr # Nil /\ cmdProcs = <<>>
        /\ (cmdName = DarktableCli /\ DarktableCli \in cmdConfig.AllowedCommands)
              => ~HasMessage(cmdErr, "invalid command")

\* C1 witness: an allow-listed darktable-cli was started
C1_Witness ==
    /\ cmdState = "done"
    /\ cmdName = DarktableCli
    /\ cmdProcs # <<>>
    /\ cmdErr = Nil

\* the input path passed path, extension and size validation (lines 878-896)
InputAccepted ==
    /\ validateFilePath(arwPath, rawConfig).err = Nil
    /\ validateFileExtension(cleanPath) = Nil
    /\ cleanPath \in DOMAIN fs
    /\ fs[cleanPath].size <= MaxFileSize

\* the options are members of their enumerated sets
OptionsAccepted ==
    /\ options.Bitness \in {8, 16}
    /\ options.Compression \in 0..9
    /\ options.ColorSpace \in {"sRGB", "AdobeRGB", "ProPhoto"}
    /\ options.WhiteBalance \in {"camera", "auto", "manual"}

\* the host did what it was asked at every request of the call
HostCooperates ==
    \A i \in DOMAIN host : host[i].did \in {"ok", "exit0", "written"}

\* the host made the temp output file
TempCreated == \E i \in DOMAIN host : host[i] = [op |-> "create", did |-> "ok"]

\* the host refused a removal
RemovalRefused == \E i \in DOMAIN host : host[i] = [op |-> "remove", did |-> "fails"]

\* C2: in every call of ProcessARWToPNG a converter process exists only when the
\* input path passed path, extension and size validation and Bitness,
\* Compression, ColorSpace and WhiteBalance are all acceptable; a call that
\* returns with one of them failing returns an error and started no process.
C2_SpawnOnlyAfterPreconditions ==
    /\ procs # <<>> => (InputAccepted /\ OptionsAccepted
                        /\ pc \in {"read", "cleanup", "done"})
    /\ (pc = "done" /\ ~(InputAccepted /\ OptionsAccepted))
           => (retErr # Nil /\ procs = <<>>)

\* C2 witness: a call whose preconditions all held has started the converter
C2_Witness ==
    /\ pc = "done" /\ procs # <<>> /\ InputAccepted /\ OptionsAccepted
    /\ procs[1].name = DarktableCli

\* C3: with an accepted input path, the converter installed, a cooperating
\* host and the default temp directory, a call with a Bitness other than 8 or 16 returns an
\* InputValidationError whose field is "bitness" and starts no process.
C3_BitnessErrorNamed ==
    (/\ pc = "done" /\ InputAccepted /\ onPath /\ TempCreated
     /\ HostCooperates /\ ~dangerousCommandChars(arwPath)
     /\ options.TempDir = OsTempDir
     /\ options.Bitness \notin {8, 16})
        => (IsValidationErrorOn(retErr, "bitness") /\ procs = <<>>)

\* C4: with an existing input file at an accepted relative path, the default
\* options and temp directory, the converter installed and a cooperating host,
\* the call starts the converter and returns non-empty PNG bytes and no error.
C4_DefaultsConvert ==
    (/\ pc = "done" /\ InputAccepted /\ ~IsAbs(arwPath) /\ onPath
     /\ [options EXCEPT !.KeepTemp = FALSE]
            = [DefaultARWProcessOptions EXCEPT !.TempDir = OsTempDir]
     /\ HostCooperates /\ ~dangerousCommandChars(arwPath))
        => (procs # <<>> /\ retErr = Nil /\ ~retData.nil /\ retData.len > 0)

\* C5 as stated: whenever ProcessARWToPNG returns with KeepTemp false after the
\* temp output file was created, that file no longer exists.
C5_TempFileGone ==
    (pc = "done" /\ tempPath # <<>> /\ ~options.KeepTemp)
        => tempPath \notin DOMAIN fs

\* C5 amended: whenever ProcessARWToPNG returns with KeepTemp false after the
\* temp output file was created, that file no longer exists unless the host
\* refused its removal; a removal refused in the deferred cleanup is printed as
\* a warning and the result of the call is the one it had before.
C5_TempFileGoneUnlessRemovalRefused ==
    (pc = "done" /\ tempPath # <<>> /\ ~options.KeepTemp)
        => /\ ~RemovalRefused => tempPath \notin DOMAIN fs
           /\ (RemovalRefused /\ TempCreated)
                  => \E i \in DOMAIN warnings :
                         warnings[i] = "failed to cleanup temp output file"

\* C5 witness: a call with KeepTemp false ran the converter, failed, and left no
\* temp output file behind
C5_Witness ==
    /\ pc = "done" /\ tempPath # <<>> /\ ~options.KeepTemp
    /\ TempCreated /\ ~RemovalRefused
    /\ procs # <<>> /\ retErr # Nil
    /\ tempPath \notin DOMAIN fs

\* C6: when the encoding at the original size is within the byte budget,
\* ProcessImage returns that encoding: its length is within the budget, its
\* dimensions are the original ones, and the resize loop is never entered.
C6_FullResolutionWithinBudget ==
    (/\ ipc \in {"loop", "done"} /\ img # NoImage
     /\ fullLen > 0 /\ fullLen <= encOptions.MaxSizeBytes)
        => /\ ipc = "done" /\ encErr = Nil
           /\ iterations = 0
           /\ encLen = fullLen /\ encLen <= encOptions.MaxSizeBytes
           /\ candidate = img

\* C6 witness: a budget equal to the size of the full-resolution encoding
C6_Witness ==
    /\ ipc = "done" /\ encErr = Nil /\ img # NoImage
    /\ fullLen = encOptions.MaxSizeBytes /\ encLen = fullLen
    /\ iterations = 0 /\ candidate = img

\* C7: every image ProcessImage encodes, at the original size or in a resize
\* iteration, is at most as wide and at most as high as the original.
C7_NeverUpscaled ==
    ipc \in {"loop", "done"} => (candidate.w <= img.w /\ candidate.h <= img.h)

\* C7 witness: a result returned from a resize iteration, smaller than the original
C7_Witness ==
    /\ ipc = "done" /\ encErr = Nil /\ iterations >= 1
    /\ candidate.w >= 1 /\ candidate.h >= 1
    /\ candidate.w < img.w /\ candidate.h <= img.h

\* C8: the resize loop of ProcessImage runs at most 11 iterations, whatever the
\* raster, the scale factor and the budget; after the 11th the loop condition
\* fails and the call returns.
C8_AtMostElevenIterations ==
    /\ iterations <= 11
    /\ (ipc = "loop" /\ iterations = 11) => FloatLess(currentFactor, MinFactor)

\* C8 witness: a call no candidate of which met the budget returned after 11 iterations
C8_Witness ==
    /\ ipc = "done" /\ iterations = 11 /\ encErr = Nil
    /\ candidate.w >= 1 /\ candidate.h >= 1
    /\ encLen > encOptions.MaxSizeBytes

\* C9: a call whose full-resolution encoding is over the budget returns a
\* candidate's bytes and extension with no error, for every decoded raster of
\* at least 1x1 pixels.
C9_OverBudgetNeverFails ==
    (/\ ipc = "done" /\ img.w >= 1 /\ img.h >= 1
     /\ fullLen > encOptions.MaxSizeBytes)
        => (encErr = Nil /\ encLen > 0 /\ encExt # <<>>)

\* C10: a call that asks for a format other than jpeg and png returns an error
\* and has not called decodeImage.
C10_FormatRejectedBeforeDecode ==
    (/\ ipc = "done"
     /\ ToLower(encOptions.OutputFormat) \notin {<<"j", "p", "e", "g">>, <<"p", "n", "g">>})
        => (encErr # Nil /\ decodeCalls = 0)

\* a path in normal form: no empty, "." or ".." element, unless it is "." itself
Normalized(path) ==
    \/ path = <<".">>
    \/ \A i \in 1..Len(SplitSlash(path)) :
          SplitSlash(path)[i] \notin {<<>>, <<".">>, <<".", ".">>}

RECURSIVE DepthsOf(_, _)
\* the depth below the starting directory after each element of a path
DepthsOf(elems, depth) ==
    IF elems = <<>> THEN <<>>
    ELSE LET e == Head(elems)
             d == IF e = <<".", ".">> THEN depth - 1
                  ELSE IF e \in {<<>>, <<".">>} THEN depth
                  ELSE depth + 1
         IN  <<d>> \o DepthsOf(Tail(elems), d)

\* the path climbs above the directory it starts from
ClimbsOut(path) ==
    \E i \in 1..Len(SplitSlash(path)) : DepthsOf(SplitSlash(path), 0)[i] < 0

\* C11: every path validateFilePath accepts is returned normalized, without
\* "..", not absolute and at most 260 characters long; "a/../../etc/passwd" is
\* rejected and "images/photo.png" is accepted.
C11_AcceptedPathIsSafe ==
    pathState = "done" =>
        /\ pathErr = Nil =>
              /\ Normalized(pathOut)
              /\ ~Contains(pathOut, <<".", ".">>)
              /\ ~(Len(pathOut) > 0 /\ pathOut[1] = "/")
              /\ Len(pathOut) <= 260
        /\ pathIn = EtcPasswdClimb => pathErr # Nil
        /\ pathIn = ImagesPhotoPng => (pathErr = Nil /\ pathOut = ImagesPhotoPng)

\* C11 witness: a path that needed normalizing was accepted
C11_Witness ==
    /\ pathState = "done" /\ pathErr = Nil
    /\ pathIn = <<".", "/">> \o LongPath(MaxPathLen)
    /\ Len(pathOut) = 260

\* C12 as stated: validateFilePath fails for every input path that contains
\* ".." followed by a separator, and for every absolute input path.
C12_TraversalInputRejected ==
    (pathState = "done" /\ (dangerousPathChars(pathIn) \/ IsAbs(pathIn)))
        => pathErr # Nil

\* C12 amended: validateFilePath fails for every input path that climbs above
\* the directory it starts from, for every absolute input path and for every
\* path whose normal form still contains ".."; a ".." that the normalization
\* cancels is accepted ("images/../photo.png" is returned as "photo.png"), and
\* a shell metacharacter in the path is not rejected.
C12_ClimbingOrAbsoluteRejected ==
    pathState = "done" =>
        /\ (ClimbsOut(pathIn) \/ IsAbs(pathIn)) => pathErr # Nil
        /\ pathIn = ImagesUpPhotoPng =>
              (pathErr = Nil /\ pathOut = <<"p", "h", "o", "t", "o", ".", "p", "n", "g">>)
        /\ pathIn = <<"p", "$", ".", "a", "r", "w">> => pathErr = Nil

\* C12 witness: a path that climbs out of its directory was rejected
C12_Witness ==
    /\ pathState = "done" /\ pathErr # Nil
    /\ pathIn = EtcPasswdClimb /\ ClimbsOut(pathIn) /\ ~IsAbs(pathIn)

\* the argument has a shell metacharacter, a traversal token or more than 4096
\* characters
ArgRefusable(arg) ==
    \/ \E i \in 1..Len(arg) :
          arg[i] \in {";", "&", "|", "`", "'", "\"", "(", ")", "{", "}", "[", "]",
                      "$", "<", ">"}
    \/ \E i \in 1..(Len(arg) - 2) : SubSeq(arg, i, i + 2) \in {<<".", ".", "/">>,
                                                               <<".", ".", "\\">>}
    \/ Len(arg) > 4096

\* C13: for a command the policy takes, the arguments are refused if and only
\* if one of them has a shell metacharacter, a traversal token or more than 4096
\* characters; an argument of exactly 4096 harmless characters is taken, and a
\* call whose arguments are refused starts no process.
C13_ArgumentsRefusedIff ==
    (cmdState = "done" /\ CmdNameAcceptable) =>
        /\ HasMessage(cmdErr, "invalid arguments")
              <=> \E i \in 1..Len(cmdArgs) : ArgRefusable(cmdArgs[i])
        /\ HasMessage(cmdErr, "invalid arguments") => cmdProcs = <<>>
        /\ (Len(cmdArgs) = 1 /\ Len(cmdArgs[1]) = 4096 /\ ~ArgRefusable(cmdArgs[1]))
              => ~HasMessage(cmdErr, "invalid arguments")

\* C13 witness: an argument of exactly 4096 characters was taken and the
\* command ran
C13_Witness ==
    /\ cmdState = "done" /\ CmdNameAcceptable
    /\ Len(cmdArgs) = 1 /\ Len(cmdArgs[1]) = 4096
    /\ cmdErr = Nil /\ cmdProcs # <<>>

\* C15: a converter that is still running at the policy's timeout is killed and
\* the call returns "command timed out"; one that exits with a nonzero status
\* before the deadline returns "command execution failed"; neither error is
\* taken for the other.
C15_TimeoutDistinctFromExit ==
    cmdState = "done" =>
        /\ cmdOutcome = "timeout" =>
              /\ HasMessage(cmdErr, "command timed out")
              /\ ~HasMessage(cmdErr, "command execution failed")
              /\ Len(cmdProcs) = 1
              /\ cmdProcs[1].end = "killed"
              /\ cmdProcs[1].timeout = cmdConfig.CommandTimeout
        /\ cmdOutcome = "exitNonZero" =>
              /\ HasMessage(cmdErr, "command execution failed")
              /\ ~HasMessage(cmdErr, "command timed out")
        /\ HasMessage(cmdErr, "command timed out") => cmdOutcome = "timeout"

\* C15 witness: the default policy's 30 s timeout ended darktable-cli
C15_Witness ==
    /\ cmdState = "done" /\ cmdOutcome = "timeout"
    /\ cmdName = DarktableCli /\ cmdConfig = DefaultSecurityConfig
    /\ cmdProcs # <<>> /\ cmdProcs[1].timeout = 30
    /\ HasMessage(cmdErr, "command timed out")

\* the three checks of a path input, on the input itself
DecPathOk ==
    /\ ~ClimbsOut(encInput.path) /\ ~IsAbs(encInput.path)
    /\ ~Contains(Clean(encInput.path), <<".", ".">>)
    /\ Len(Clean(encInput.path)) <= 260
DecExtOk ==
    ToLower(Ext(Clean(encInput.path))) \in
        {<<".", "p", "n", "g">>, <<".", "j", "p", "g">>, <<".", "j", "p", "e", "g">>,
         <<".", "w", "e", "b", "p">>, <<".", "t", "i", "f", "f">>, <<".", "b", "m", "p">>,
         <<".", "a", "r", "w">>, <<".", "s", "r", "f">>, <<".", "s", "r", "2">>}
DecSizeOk == encInput.file.exists /\ encInput.file.size <= 100 * 1024 * 1024

\* C14: decodeImage checks a path input in the order path, extension, size and
\* opens the file only when all three pass; of a byte buffer it checks only
\* the length, refusing more than 100 MB and taking exactly 100 MB; it refuses
\* every other kind of input with an InputValidationError.
C14_DecodeRoutesByKind ==
    ipc \in {"loop", "done"} =>
        /\ encInput.kind = "path" =>
              /\ ~DecPathOk => IsSecurityError(encErr, "path_validation")
              /\ (DecPathOk /\ ~DecExtOk) => IsSecurityError(encErr, "extension_validation")
              /\ (DecPathOk /\ DecExtOk /\ ~DecSizeOk)
                    => IsSecurityError(encErr, "size_validation")
              /\ decOpened => (DecPathOk /\ DecExtOk /\ DecSizeOk)
              /\ (DecPathOk /\ DecExtOk /\ DecSizeOk)
                    => (decOpened \/ HasMessage(encErr, "failed to open file"))
        /\ encInput.kind = "bytes" =>
              /\ ~decOpened
              /\ encInput.len > 100 * 1024 * 1024
                    <=> IsSecurityError(encErr, "size_validation")
              /\ ~IsSecurityError(encErr, "path_validation")
              /\ ~IsSecurityError(encErr, "extension_validation")
        /\ encInput.kind \notin {"path", "bytes"} =>
              (IsValidationErrorOn(encErr, "input_type") /\ ~decOpened)

\* C14 witness: a byte buffer of exactly 100 MB was decoded
C14_Witness ==
    /\ ipc = "done" /\ encErr = Nil
    /\ encInput.kind = "bytes" /\ encInput.len = 100 * 1024 * 1024
    /\ img # NoImage

FailedRuns ==
    {i \in DOMAIN host : host[i].op = "run" /\ host[i].did \in {"exitNonZero", "timeout"}}

\* C17: a call of ProcessARWToPNG starts the converter at most once; after a
\* run that failed or timed out it returns the error without a second run.
C17_AtMostOneSpawn ==
    /\ Len(procs) <= 1
    /\ Cardinality({i \in DOMAIN host : host[i].op = "run"}) <= 1
    /\ (pc = "done" /\ FailedRuns # {}) =>
          /\ Len(procs) = 1
          /\ retErr # Nil /\ retData.nil
          /\ HasMessage(retErr, "darktable-cli execution failed")

\* C17 witness: a call whose only run of the converter timed out
C17_Witness ==
    /\ pc = "done" /\ Len(procs) = 1 /\ procs[1].end = "killed"
    /\ \E i \in DOMAIN host : host[i] = [op |-> "run", did |-> "timeout"]
    /\ HasMessage(retErr, "command timed out")

\* C19: the deferred teardown of ProcessARWToPNG leaves the result of the call
\* as it was: a call that failed returns its primary error even when closing
\* or removing the temp file fails too, and each such failure is printed as a
\* warning.
C19_TeardownKeepsPrimaryError ==
    [][pc = "cleanup" =>
          /\ retErr' = retErr /\ retData' = retData
          /\ (\E i \in DOMAIN host' : host'[i] = [op |-> "close", did |-> "fails"])
                => \E j \in DOMAIN warnings' :
                       warnings'[j] = "failed to close temp output file"
          /\ (\E i \in DOMAIN host' : host'[i] = [op |-> "remove", did |-> "fails"])
                => \E j \in DOMAIN warnings' :
                       warnings'[j] = "failed to cleanup temp output file"]_vars

\* C19 witness: a call whose converter timed out and whose temp file could be
\* neither closed nor removed returned the timeout error
C19_Witness ==
    /\ pc = "done" /\ HasMessage(retErr, "command timed out")
    /\ \E i \in DOMAIN host : host[i] = [op |-> "close", did |-> "fails"]
    /\ RemovalRefused
    /\ Len(warnings) = 2
    /\ tempPath \in DOMAIN fs

\* C20 as stated: a temp file acquired with secureCreateTempFile has mode 0600;
\* after a release without keep no file exists at the returned path, and after
\* a release with keep the file is still there with mode 0600.
C20_ReleaseRemovesUnlessKept ==
    /\ tmpState = "acquired" =>
          (tmpName \in DOMAIN tmpFs /\ tmpFs[tmpName].mode = "0600")
    /\ (tmpState = "released" /\ tmpName # <<>>) =>
          IF tmpKeep
          THEN tmpName \in DOMAIN tmpFs /\ tmpFs[tmpName].mode = "0600"
          ELSE tmpName \notin DOMAIN tmpFs

\* C20 amended: a temp file acquired with secureCreateTempFile has mode 0600
\* from its creation; after a release without keep that returns no error no
\* file exists at the returned path, a release that cannot remove the file
\* returns an error and leaves it in place, and after a release with keep the
\* file is still there with mode 0600.
C20_ReleaseRemovesUnlessKeptOrRefused ==
    /\ \A p \in DOMAIN tmpFs :
          p \notin UNION {DOMAIN files : files \in TempFileSystems}
              => tmpFs[p].mode = "0600"
    /\ tmpState = "acquired" =>
          /\ tmpErr = Nil
          /\ tmpName \in DOMAIN tmpFs /\ tmpFs[tmpName].mode = "0600"
    /\ (tmpState = "released" /\ tmpName # <<>>) =>
          /\ tmpKeep =>
                /\ tmpErr = Nil
                /\ tmpName \in DOMAIN tmpFs /\ tmpFs[tmpName].mode = "0600"
          /\ (~tmpKeep /\ tmpErr = Nil) => tmpName \notin DOMAIN tmpFs
          /\ (~tmpKeep /\ tmpErr # Nil) =>
                /\ HasMessage(tmpErr, "failed to cleanup file")
                /\ tmpName \in DOMAIN tmpFs /\ tmpFs[tmpName].mode = "0600"

\* C20 witness: a file acquired in a caller's directory was released without
\* keep and is gone
C20_Witness ==
    /\ tmpState = "released" /\ tmpName # <<>> /\ ~tmpKeep /\ tmpErr = Nil
    /\ tmpConfig.AllowedTempDir = <<"t">>
    /\ tmpName \notin DOMAIN tmpFs

\* C18: calls that run at the same time hold different policy values, each with
\* the temp directory its own call set and the default allow-list and timeout;
\* the policy safeExecuteDarktableCommand makes has the default temp directory;
\* each call's temp file lies in its own directory, belongs to it alone, and is
\* there until the call itself removes it.
C18_NoSharedPolicyOrArtifact ==
    \A c \in Calls :
        /\ call[c].pc \in {"create", "exec", "cleanup", "done"} =>
              /\ heap[call[c].cfg].AllowedTempDir = call[c].dir
              /\ heap[call[c].cfg].AllowedCommands = {DarktableCli, Echo}
              /\ heap[call[c].cfg].CommandTimeout = 30
        /\ \A d \in Calls \ {c} :
              /\ (call[c].cfg # 0 /\ call[d].cfg # 0) => call[c].cfg # call[d].cfg
              /\ (call[c].pc \in {"exec", "cleanup"} /\ call[d].pc \in {"exec", "cleanup"})
                    => call[c].temp # call[d].temp
        /\ call[c].pc \in {"cleanup", "done"} /\ call[c].kind = "ProcessARWToPNG"
              => call[c].runDir = OsTempDir
        /\ call[c].pc \in {"exec", "cleanup"} =>
              /\ call[c].temp \in DOMAIN shared
              /\ shared[call[c].temp].owner = c
              /\ SubSeq(call[c].temp, 1, Len(call[c].dir)) = call[c].dir

\* C18 witness: two calls with different temp directories each hold a temp file
\* in their own directory
C18_Witness ==
    /\ call[1].pc = "cleanup" /\ call[2].pc = "cleanup"
    /\ call[1].dir = <<"a">> /\ call[2].dir = OsTempDir
    /\ call[1].cfg # call[2].cfg
    /\ call[1].temp \in DOMAIN shared /\ call[2].temp \in DOMAIN shared

\* C21 as stated: every call of secureCleanup on the same path, the calls
\* after the file is gone included, returns no error, and the files are the
\* same after any number of calls as after the first.
C21_ReleaseIdempotent ==
    (tmpState = "released" /\ tmpReleases >= 1) =>
        /\ tmpErr = Nil
        /\ tmpFs = tmpFirst.fs

\* C21 amended: once a call of secureCleanup on a path returned no error, every
\* later call on that path returns no error and changes no file, the file
\* being absent unless keep is set; a call returns an error only when keep is
\* unset and the file could not be removed, and then the file is still there.
C21_ReleaseIdempotentOnceSucceeded ==
    (tmpState = "released" /\ tmpReleases >= 1) =>
        /\ tmpFirst.err = Nil => (tmpErr = Nil /\ tmpFs = tmpFirst.fs)
        /\ tmpErr = Nil => (tmpName \in DOMAIN tmpFs <=> tmpKeep)
        /\ tmpErr # Nil =>
              /\ HasMessage(tmpErr, "failed to cleanup file")
              /\ ~tmpKeep
              /\ tmpName \in DOMAIN tmpFs

\* C21 witness: secureCleanup was called MaxReleases times without keep on a
\* file that the first call removed
C21_Witness ==
    /\ tmpState = "released" /\ tmpReleases = MaxReleases /\ ~tmpKeep
    /\ tmpFirst.err = Nil /\ tmpErr = Nil
    /\ tmpName # <<>> /\ tmpName \notin DOMAIN tmpFirst.fs
    /\ tmpFs = tmpFirst.fs

\* C22: whenever ProcessImageToFile or ProcessImageToTempFile has written the
\* encoded bytes, the name of the file ends with the extension of the encoding
\* produced (.png or .jpg), which ProcessImageToFile appends only to a name
\* that does not end with it.
C22_WrittenNameHasProducedExt ==
    (ipc = "wrote" /\ written.err = Nil) =>
        /\ written.len = encLen
        /\ encExt \in {<<".", "p", "n", "g">>, <<".", "j", "p", "g">>}
        /\ hasSuffixIgnoreCase(written.name, encExt)
        /\ written.by = "file" =>
              \E outputPath \in OutputPaths :
                  written.name = IF hasSuffixIgnoreCase(outputPath, encExt)
                                 THEN outputPath ELSE outputPath \o encExt

\* C23: the base scale factor is 0.60 for an original pixel count of 8,000,000
\* or more, 0.75 from 4,000,000, 0.85 from 2,000,000, and 1.00 below.
C23_BaseFactorBreakpoints ==
    (ipc = "loop" /\ encOptions.MaxWidth = 0 /\ encOptions.MaxHeight = 0) =>
        LET pixels == img.w * img.h
        IN  scaleFactor = IF pixels >= 8000000 THEN F060
                          ELSE IF pixels >= 4000000 THEN F075
                          ELSE IF pixels >= 2000000 THEN F085
                          ELSE One

\* C24: for a 4000x3000 raster over the budget at full size, with no maximal
\* width or height, the first resized candidate is 2400x1800 and the second,
\* if the first is over the budget too, is 1920x1440.
C24_SecondCandidateIs1920x1440 ==
    (img = [w |-> 4000, h |-> 3000] /\ encOptions.MaxWidth = 0
        /\ encOptions.MaxHeight = 0) =>
        /\ iterations = 1 => candidate = [w |-> 2400, h |-> 1800]
        /\ iterations = 2 => candidate = [w |-> 1920, h |-> 1440]

\* C25: in every iteration of the resize loop after the first the target scale
\* is smaller than in the iteration before, and no iteration encodes an image
\* wider or higher than the one encoded before it; so the candidate held when
\* the loop is exhausted is no larger than any candidate tried.
C25_DecayShrinks ==
    /\ (ipc \in {"loop", "done"} /\ iterations >= 1) =>
          /\ candidate.w <= previous.w /\ candidate.h <= previous.h
          /\ candidate.w <= img.w /\ candidate.h <= img.h
          /\ FloatLess(target, One) \/ iterations = 1
    /\ (ipc = "loop" /\ iterations >= 1) =>
          FloatLess(targetFactorOf(currentFactor, scaleFactor), target)

\* C25 witness: the loop was exhausted after eleven iterations on a 100x100
\* raster, each candidate smaller than the one before
C25_Witness ==
    /\ ipc = "done" /\ encErr = Nil /\ iterations = 11
    /\ img = [w |-> 100, h |-> 100]
    /\ candidate.w < previous.w /\ candidate.h < previous.h
    /\ FloatLess(currentFactor, MinFactor)

\* C28: every result ProcessImage returns is no wider than MaxWidth and no
\* higher than MaxHeight, for each of the two limits that is set, also when
\* the encoding at the original size is within the budget.
C28_ResultWithinMaxSize ==
    (ipc = "done" /\ encErr = Nil) =>
        /\ encOptions.MaxWidth > 0 => candidate.w <= encOptions.MaxWidth
        /\ encOptions.MaxHeight > 0 => candidate.h <= encOptions.MaxHeight

\* C30: the target scale factor of every iteration of the resize loop is at
\* least 0.1, so no candidate is below 10% of the original width and height.
C30_TargetAtLeastTenth ==
    (ipc \in {"loop", "done"} /\ iterations >= 1) => ~FloatLess(target, MinFactor)

\* C26: every process ProcessARWToPNG starts runs in the allowed temp directory
\* of the call's policy, options.TempDir or the system temp directory, which is
\* the directory the call created its temp output file in.
C26_RunsInCallTempDir ==
    \A i \in 1..Len(procs) :
        /\ procs[i].dir = rawConfig.AllowedTempDir
        /\ procs[i].dir = options.TempDir
        /\ \E random \in TempRandoms :
              tempPath = CreateTempName(procs[i].dir, ArwOutputPrefix, random, PngSuffix)

\* C27: every process ProcessARWToPNG starts is darktable-cli, and its argument
\* vector is the input path, the output path and a fixed sequence of flags in
\* which only the bit depth (8 or 16), the compression level (0..9), the colour
\* space code of the static mapping and the white balance mode vary; Exposure,
\* Contrast, Saturation and TempDir are no argument of it.
C27_FixedArgumentShape ==
    \A i \in 1..Len(procs) :
        /\ procs[i].name = DarktableCli
        /\ options.Bitness \in {8, 16}
        /\ options.Compression \in 0..9
        /\ options.ColorSpace \in {"sRGB", "AdobeRGB", "ProPhoto"}
        /\ options.WhiteBalance \in {"camera", "auto", "manual"}
        /\ procs[i].args =
              <<cleanPath, tempPath,
                FlagCore, FlagConf, ConfBpp \o Itoa(options.Bitness),
                FlagCore, FlagConf, ConfCompression \o Itoa(options.Compression),
                FlagCore, FlagConf,
                ConfColorspace \o (CASE options.ColorSpace = "sRGB" -> <<"2">>
                                     [] options.ColorSpace = "AdobeRGB" -> <<"1">>
                                     [] OTHER -> <<"3">>),
                FlagCore, FlagConf,
                ConfWb \o (CASE options.WhiteBalance = "camera" -> <<"c", "a", "m", "e", "r", "a">>
                             [] options.WhiteBalance = "auto" -> <<"a", "u", "t", "o">>
                             [] OTHER -> <<"m", "a", "n", "u", "a", "l">>),
                FlagHq, FlagUpscale, FlagConf, ConfOverwrite>>

\* C27 witness: darktable-cli ran for a call that set Exposure and a ProPhoto
\* colour space
C27_Witness ==
    /\ Len(procs) = 1 /\ procs[1].name = DarktableCli
    /\ options.Exposure = 2 /\ options.ColorSpace = "ProPhoto"
    /\ options.TempDir = <<"t">>
    /\ Len(procs[1].args) = 18

\* C29: a call whose input path passed the path validation of ProcessARWToPNG
\* and whose temp file was created is never refused afterwards because
\* validateCommandArgs rejects an argument.
C29_AcceptedPathNotRefusedLater ==
    tempPath # <<>> => ~HasMessage(retErr, "invalid arguments")

====
